---------------------------- MODULE Spec2Model ----------------------------
(***************************************************************************)
(* gorilla-pkg: version normalisation, install-location handling and the   *)
(* build drivers that use them.                                            *)
(*                                                                         *)
(* Go strings are modelled as sequences of one-character strings.  Go's    *)
(* int is the 64-bit two's-complement integer of the amd64 build; a value  *)
(* is a little-endian tuple of IntLimbs limbs of LimbBase each, so that    *)
(* range errors of strconv.Atoi and the wrap-around of int arithmetic are  *)
(* computed exactly.                                                       *)
(*                                                                         *)
(* Spec runs parseVersion and main of part_001, SpecPath the path          *)
(* functions, SpecMain main of main.go next to main of part_001.           *)
(***************************************************************************)
EXTENDS Integers, Sequences, FiniteSets, TLC

VARIABLES
    prog,          \* which program runs: "modulo" (part_001) or "passthrough" (main.go parseVersion)
    pc,            \* position of the program
    versionStr,    \* product.version as configured in build-info.yaml
    buildInfo,     \* the decoded BuildInfo (Product.Version), or NoBuildInfo
    version,       \* string returned by parseVersion
    verr,          \* error returned by parseVersion
    dirsCreated,   \* createProjectDirectory has run
    nuspec,        \* the .nuspec written by generateNuspec, or NoNuspec
    packed,        \* nuget pack has produced a package
    runs,          \* number of times the program has been started
    fromOutput,    \* versionStr of this run is the output of the previous run
    pathFn,        \* the path function under call: "enforce", "trim", "resolve", or "none"
    rawPath,       \* install_location as configured in build-info.yaml
    homeDir,       \* what os.UserHomeDir returns
    pathOut,       \* [done, out]: the string the path function returned
    pathAgain,     \* [done, out]: what the function returned when applied to pathOut.out
    project,       \* the project directory on disk, as main.go finds and changes it
    config,        \* install_location, postinstall_action, signing_certificate of build-info.yaml
    hasPayloadFiles, \* result of payloadDirectoryHasFiles in main
    fatal,         \* the log.Fatalf call that ended main of main.go, or "none"
    outcome        \* [finalPkgPath, signtool, reported]: the path main settled on, the
                   \* signtool commands it ran, the path it reported as created

coreVars == <<prog, pc, versionStr, buildInfo, version, verr, dirsCreated, nuspec, packed, runs, fromOutput>>

pathVars == <<pathFn, rawPath, homeDir, pathOut, pathAgain>>

mainVars == <<project, config, hasPayloadFiles, fatal, outcome>>

vars == <<coreVars, pathVars, mainVars>>

-----------------------------------------------------------------------------
(* Bounds of the model *)

MaxParts == 5

MaxLen == 6

MaxRuns == 2

-----------------------------------------------------------------------------
(* Characters and strings *)

DigitChars == <<"0", "1", "2", "3", "4", "5", "6", "7", "8", "9">>

IsDigit(c) == \E i \in 1..10 : DigitChars[i] = c

DigitVal(c) == (CHOOSE i \in 1..10 : DigitChars[i] = c) - 1

DigitChar(n) == DigitChars[n + 1]

\* s[from:] of Go, 0-based from
SliceFrom(s, from) == SubSeq(s, from + 1, Len(s))

RECURSIVE IndexOf(_, _, _)
\* position of the first c in s at or after position i, 0 when there is none
IndexOf(s, c, i) ==
    IF i > Len(s) THEN 0
    ELSE IF s[i] = c THEN i
    ELSE IndexOf(s, c, i + 1)

RECURSIVE Split(_, _)
\* strings.Split(s, sep) for a one-character separator
Split(s, sep) ==
    LET k == IndexOf(s, sep, 1) IN
    IF k = 0 THEN <<s>>
    ELSE <<SubSeq(s, 1, k - 1)>> \o Split(SubSeq(s, k + 1, Len(s)), sep)

RECURSIVE JoinTrailingSep(_, _)
JoinTrailingSep(elems, sep) ==
    IF elems = <<>> THEN <<>>
    ELSE elems[1] \o <<sep>> \o JoinTrailingSep(Tail(elems), sep)

RECURSIVE Join(_, _)
\* strings.Join(elems, sep)
Join(elems, sep) ==
    IF elems = <<>> THEN <<>>
    ELSE IF Len(elems) = 1 THEN elems[1]
    ELSE elems[1] \o <<sep>> \o Join(Tail(elems), sep)

-----------------------------------------------------------------------------
(* Go int: 64-bit two's complement *)

LimbBase == 65536

IntLimbs == 4

SignLimb == LimbBase \div 2

Zero64 == [i \in 1..IntLimbs |-> 0]

One64 == [i \in 1..IntLimbs |-> IF i = 1 THEN 1 ELSE 0]

RECURSIVE MulAddLimbs(_, _, _, _)
\* limbs i.. of x*m + a, the carry out of the top limb last
MulAddLimbs(x, m, a, i) ==
    IF i > IntLimbs THEN <<a>>
    ELSE LET t == x[i] * m + a
         IN  <<t % LimbBase>> \o MulAddLimbs(x, m, t \div LimbBase, i + 1)

\* x*m + a on the unsigned 64-bit value x, with the carry out of bit 64
MulAddU(x, m, a) ==
    LET r == MulAddLimbs(x, m, a, 1)
    IN  [v |-> SubSeq(r, 1, IntLimbs), carry |-> r[IntLimbs + 1]]

RECURSIVE AddLimbs(_, _, _, _)
AddLimbs(x, y, c, i) ==
    IF i > IntLimbs THEN <<>>
    ELSE LET t == x[i] + y[i] + c
         IN  <<t % LimbBase>> \o AddLimbs(x, y, t \div LimbBase, i + 1)

\* x + y of Go: wraps modulo 2^64
Add64(x, y) == AddLimbs(x, y, 0, 1)

\* -x of Go: two's complement, wraps for the minimum value
Neg64(x) == Add64([i \in 1..IntLimbs |-> LimbBase - 1 - x[i]], One64)

IsNeg64(x) == x[IntLimbs] >= SignLimb

\* x * m of Go for a small positive constant m: wraps modulo 2^64
Mul64(x, m) == MulAddU(x, m, 0).v

\* x % m of Go (remainder truncated toward zero, sign of x) for m dividing LimbBase
Rem64(x, m) ==
    IF IsNeg64(x)
    THEN Neg64([i \in 1..IntLimbs |-> IF i = 1 THEN Neg64(x)[1] % m ELSE 0])
    ELSE [i \in 1..IntLimbs |-> IF i = 1 THEN x[1] % m ELSE 0]

RECURSIVE DivLimbs(_, _, _)
\* quotient limbs i..1 (top first) of x / 10 with incoming remainder r, the final remainder last
DivLimbs(x, r, i) ==
    IF i < 1 THEN <<r>>
    ELSE LET cur == r * LimbBase + x[i]
         IN  <<cur \div 10>> \o DivLimbs(x, cur % 10, i - 1)

DivMod10(x) ==
    LET d == DivLimbs(x, 0, IntLimbs)
    IN  [q |-> [i \in 1..IntLimbs |-> d[IntLimbs + 1 - i]], r |-> d[IntLimbs + 1]]

RECURSIVE UDec(_)
\* decimal digits of the unsigned value x, empty for zero
UDec(x) ==
    IF x = Zero64 THEN <<>>
    ELSE LET dm == DivMod10(x) IN UDec(dm.q) \o <<DigitChar(dm.r)>>

\* fmt.Sprintf("%d", x)
FormatInt(x) ==
    IF x = Zero64 THEN <<"0">>
    ELSE IF IsNeg64(x) THEN <<"-">> \o UDec(Neg64(x))
    ELSE UDec(x)

-----------------------------------------------------------------------------
(* strconv.Atoi *)

RECURSIVE ScanDigits(_, _, _)
\* the digit loop of ParseUint: syntax error at the first non-digit, range
\* error as soon as the value leaves 64 bits
ScanDigits(s, i, acc) ==
    IF i > Len(s) THEN [st |-> "ok", v |-> acc]
    ELSE IF ~IsDigit(s[i]) THEN [st |-> "invalid syntax", v |-> Zero64]
    ELSE LET r == MulAddU(acc, 10, DigitVal(s[i]))
         IN  IF r.carry > 0 THEN [st |-> "value out of range", v |-> Zero64]
             ELSE ScanDigits(s, i + 1, r.v)

\* un > 2^63
Above2p63(un) ==
    \/ un[IntLimbs] > SignLimb
    \/ un[IntLimbs] = SignLimb /\ \E i \in 1..(IntLimbs - 1) : un[i] # 0

\* strconv.Atoi(s): [ok, val, cause, num]; num is the string the error quotes
Atoi(s) ==
    LET neg  == Len(s) > 0 /\ s[1] = "-"
        sign == Len(s) > 0 /\ s[1] \in {"+", "-"}
        body == IF sign THEN SliceFrom(s, 1) ELSE s
        sc   == ScanDigits(body, 1, Zero64)
        bad(cause) == [ok |-> FALSE, val |-> Zero64, cause |-> cause, num |-> s]
    IN  IF Len(body) = 0 THEN bad("invalid syntax")
        ELSE IF sc.st # "ok" THEN bad(sc.st)
        ELSE IF ~neg /\ IsNeg64(sc.v) THEN bad("value out of range")
        ELSE IF neg /\ Above2p63(sc.v) THEN bad("value out of range")
        ELSE [ok |-> TRUE, val |-> IF neg THEN Neg64(sc.v) ELSE sc.v,
              cause |-> "", num |-> s]

-----------------------------------------------------------------------------
(* Errors: the format string of fmt.Errorf, the string quoted in the message
   (strconv's NumError.Num, or the %s / %q argument) and strconv's cause *)

NoErr == [fmt |-> "nil", num |-> <<>>, cause |-> ""]

Errorf(fmt, num, cause) == [fmt |-> fmt, num |-> num, cause |-> cause]

\* fmt.Errorf(fmt + ": %v", err) for an error err of strconv.Atoi
WrapAtoi(fmt, a) == Errorf(fmt, a.num, a.cause)

Failed(err) == [out |-> <<>>, err |-> err]

-----------------------------------------------------------------------------
(* The text of an error message *)

\* the literal text of a format string up to its verb
FormatPrefix(fmt) ==
    CASE fmt = "invalid year: %v" ->
         <<"i", "n", "v", "a", "l", "i", "d", " ", "y", "e", "a", "r", ":", " ">>
      [] fmt = "invalid major version: %v" ->
         <<"i", "n", "v", "a", "l", "i", "d", " ", "m", "a", "j", "o", "r", " ",
           "v", "e", "r", "s", "i", "o", "n", ":", " ">>
      [] fmt = "invalid minor version: %v" ->
         <<"i", "n", "v", "a", "l", "i", "d", " ", "m", "i", "n", "o", "r", " ",
           "v", "e", "r", "s", "i", "o", "n", ":", " ">>
      [] fmt = "invalid build version: %v" ->
         <<"i", "n", "v", "a", "l", "i", "d", " ", "b", "u", "i", "l", "d", " ",
           "v", "e", "r", "s", "i", "o", "n", ":", " ">>
      [] fmt = "invalid extra build number: %v" ->
         <<"i", "n", "v", "a", "l", "i", "d", " ", "e", "x", "t", "r", "a", " ",
           "b", "u", "i", "l", "d", " ", "n", "u", "m", "b", "e", "r", ":", " ">>
      [] fmt = "invalid version format: %s" ->
         <<"i", "n", "v", "a", "l", "i", "d", " ", "v", "e", "r", "s", "i", "o",
           "n", " ", "f", "o", "r", "m", "a", "t", ":", " ">>
      [] fmt = "invalid version part: %q is not a number" ->
         <<"i", "n", "v", "a", "l", "i", "d", " ", "v", "e", "r", "s", "i", "o",
           "n", " ", "p", "a", "r", "t", ":", " ">>

\* (*NumError).Error() of strconv.Atoi: strconv.Atoi: parsing "num": cause
NumErrorText(num, cause) ==
    <<"s", "t", "r", "c", "o", "n", "v", ".", "A", "t", "o", "i", ":", " ",
    "p", "a", "r", "s", "i", "n", "g", " ">>
    \o <<"\"">> \o num \o <<"\"", ":", " ">>
    \o (IF cause = "invalid syntax"
        THEN <<"i", "n", "v", "a", "l", "i", "d", " ", "s", "y", "n", "t", "a", "x">>
        ELSE <<"v", "a", "l", "u", "e", " ", "o", "u", "t", " ", "o", "f", " ", "r",
             "a", "n", "g", "e">>)

\* err.Error() of the errors parseVersion returns
ErrorText(e) ==
    IF e.fmt = "invalid version format: %s" THEN FormatPrefix(e.fmt) \o e.num
    ELSE IF e.fmt = "invalid version part: %q is not a number"
    THEN FormatPrefix(e.fmt) \o <<"\"">> \o e.num \o <<"\"">>
         \o <<" ", "i", "s", " ", "n", "o", "t", " ", "a", " ", "n", "u", "m", "b",
         "e", "r">>
    ELSE FormatPrefix(e.fmt) \o NumErrorText(e.num, e.cause)

-----------------------------------------------------------------------------
(* parseVersion of part_001 (the modulo variant) *)

YearLen == 4

FoldFactor == 1000

MinorCeil == 256

BuildCeil == 65536

YearDigitsWhole(part) == part

\* parts[0][2:]
YearDigits(part) == SliceFrom(part, 2)

VersionShapeAtLeast(n) ==
    IF n = 3 THEN "date_or_semver" ELSE IF n >= 4 THEN "semver_build" ELSE "invalid"

\* switch len(parts)
VersionShape(n) ==
    IF n = 3 THEN "date_or_semver" ELSE IF n = 4 THEN "semver_build" ELSE "invalid"

\* build = (build * 1000) + extra
FoldBuild(build, extra) == Add64(Mul64(build, FoldFactor), extra)

ReduceMinorWide(minor) == Rem64(minor, 2 * MinorCeil)

\* minor = minor % 256
ReduceMinor(minor) == Rem64(minor, MinorCeil)

ReduceBuildNarrow(build) == Rem64(build, BuildCeil \div 2)

\* build = build % 65536
ReduceBuild(build) == Rem64(build, BuildCeil)

\* fmt.Sprintf("%d.%d.%d", major, minor, build) after the reduction
FormatVersion(major, minor, build) ==
    [out |-> FormatInt(major) \o <<".">> \o FormatInt(ReduceMinor(minor))
                              \o <<".">> \o FormatInt(ReduceBuild(build)),
     err |-> NoErr]

\* case 3
ParseThree(parts) ==
    LET isYear == Len(parts[1]) = YearLen
        major  == IF isYear THEN Atoi(YearDigits(parts[1])) ELSE Atoi(parts[1])
        minor  == Atoi(parts[2])
        build  == Atoi(parts[3])
    IN  IF ~major.ok
        THEN Failed(WrapAtoi(IF isYear THEN "invalid year: %v"
                                       ELSE "invalid major version: %v", major))
        ELSE IF ~minor.ok THEN Failed(WrapAtoi("invalid minor version: %v", minor))
        ELSE IF ~build.ok THEN Failed(WrapAtoi("invalid build version: %v", build))
        ELSE FormatVersion(major.val, minor.val, build.val)

\* case 4
ParseFour(parts) ==
    LET major == Atoi(parts[1])
        minor == Atoi(parts[2])
        build == Atoi(parts[3])
        extra == Atoi(parts[4])
    IN  IF ~major.ok THEN Failed(WrapAtoi("invalid major version: %v", major))
        ELSE IF ~minor.ok THEN Failed(WrapAtoi("invalid minor version: %v", minor))
        ELSE IF ~build.ok THEN Failed(WrapAtoi("invalid build version: %v", build))
        ELSE IF ~extra.ok THEN Failed(WrapAtoi("invalid extra build number: %v", extra))
        ELSE FormatVersion(major.val, minor.val, FoldBuild(build.val, extra.val))

\* parseVersion(versionStr) of part_001: [out, err]
parseVersion(vs) ==
    LET parts == Split(vs, ".")
        shape == VersionShape(Len(parts))
    IN  IF shape = "date_or_semver" THEN ParseThree(parts)
        ELSE IF shape = "semver_build" THEN ParseFour(parts)
        ELSE Failed(Errorf("invalid version format: %s", vs, ""))

-----------------------------------------------------------------------------
(* parseVersion of main.go and part_000 (the pass-through variant) *)

RECURSIVE CheckParts(_, _)
\* the loop over parts: the first part strconv.Atoi rejects, or the parts kept
CheckParts(parts, numericParts) ==
    IF parts = <<>> THEN [bad |-> FALSE, part |-> <<>>, numericParts |-> numericParts]
    ELSE IF ~Atoi(parts[1]).ok
         THEN [bad |-> TRUE, part |-> parts[1], numericParts |-> numericParts]
         ELSE CheckParts(Tail(parts), Append(numericParts, parts[1]))

parseVersionMainSkipLast(vs) ==
    LET parts == Split(vs, ".")
        chk   == CheckParts(SubSeq(parts, 1, Len(parts) - 1), <<>>)
    IN  IF chk.bad
        THEN Failed(Errorf("invalid version part: %q is not a number", chk.part, ""))
        ELSE [out |-> Join(parts, "."), err |-> NoErr]

\* parseVersion(versionStr) of main.go: [out, err]
parseVersionMain(vs) ==
    LET chk == CheckParts(Split(vs, "."), <<>>)
    IN  IF chk.bad
        THEN Failed(Errorf("invalid version part: %q is not a number", chk.part, ""))
        ELSE [out |-> Join(chk.numericParts, "."), err |-> NoErr]

-----------------------------------------------------------------------------
(* Configured versions the model starts from *)

Alphabet == {"1", ".", "-", "a"}

RECURSIVE StringsUpTo(_)
\* every string over Alphabet of length at most n
StringsUpTo(n) ==
    IF n = 0 THEN {<<>>}
    ELSE LET shorter == StringsUpTo(n - 1)
         IN  shorter \cup {Append(s, c) : s \in {t \in shorter : Len(t) = n - 1}, c \in Alphabet}

MaxInt64Str ==
    <<"9","2","2","3","3","7","2","0","3","6","8","5","4","7","7","5","8","0","7">>

AboveInt64Str ==
    <<"9","2","2","3","3","7","2","0","3","6","8","5","4","7","7","5","8","0","8">>

\* segments tried at the i-th position of a dotted version
SegmentsAt(i) ==
    CASE i = 1 -> { <<"1">>, <<"0","1">>, <<"2","0","2","4">>, <<"1","0","0","0">>,
                    <<"a","b","1","2">>, <<"1","2","a","b">>, <<"-","1","2","3">>,
                    <<"+","1">>, <<"-","1">>, <<"a">>, <<>>, MaxInt64Str, AboveInt64Str }
      [] i = 2 -> { <<"2">>, <<"1","0">>, <<"3","0","0">>, <<"2","5","5">>, <<"2","5","6">>,
                    <<"-","5">>, <<"a">>, <<>>, AboveInt64Str }
      [] i = 3 -> { <<"3">>, <<"0">>, <<"1","1">>, <<"7","0","0","0","0">>,
                    <<"6","5","5","3","5">>, <<"6","5","5","3","6">>, <<"-","5">>, <<"a">>,
                    MaxInt64Str, AboveInt64Str }
      [] i = 4 -> { <<"4","5","6">>, <<"3">>, <<"0">>, <<"-","5">>, <<"a">>, MaxInt64Str }
      [] OTHER -> { <<"1">> }

RECURSIVE DottedVersions(_)
\* every version of exactly k segments, the i-th taken from SegmentsAt(i)
DottedVersions(k) ==
    IF k = 1 THEN SegmentsAt(1)
    ELSE {v \o <<".">> \o seg : v \in DottedVersions(k - 1), seg \in SegmentsAt(k)}

Inputs == StringsUpTo(MaxLen) \cup UNION {DottedVersions(k) : k \in 1..MaxParts}

-----------------------------------------------------------------------------
(* State *)

NoBuildInfo == [Version |-> <<"?">>, loaded |-> FALSE]

NoNuspec == [written |-> FALSE, Version |-> <<>>, Files |-> <<>>]

FileRef(src, target) == [Src |-> src, Target |-> target]

Start(p, vs, n, reapplied) ==
    /\ prog = p
    /\ pc = CASE p = "modulo" -> "readBuildInfo"
              [] p = "main" -> "verifyProjectStructure"
              [] p = "main000" -> "verifyProjectStructure"
              [] OTHER -> "call"
    /\ versionStr = vs
    /\ buildInfo = NoBuildInfo
    /\ version = <<>>
    /\ verr = NoErr
    /\ dirsCreated = FALSE
    /\ nuspec = NoNuspec
    /\ packed = FALSE
    /\ runs = n
    /\ fromOutput = reapplied

\* no path function is under call
PathIdle ==
    /\ pathFn = "none"
    /\ rawPath = <<>>
    /\ homeDir = <<>>
    /\ pathOut = [done |-> FALSE, out |-> <<>>]
    /\ pathAgain = [done |-> FALSE, out |-> <<>>]

NoFatal == [step |-> "none", err |-> "none"]

NoOutcome == [finalPkgPath |-> <<>>, signtool |-> <<>>, reported |-> <<>>]

\* main of main.go is not running
MainIdle ==
    /\ project = [none |-> TRUE]
    /\ config = [none |-> TRUE]
    /\ hasPayloadFiles = FALSE
    /\ fatal = NoFatal
    /\ outcome = NoOutcome

Init ==
    /\ \E p \in {"modulo", "passthrough"}, vs \in Inputs : Start(p, vs, 1, FALSE)
    /\ PathIdle
    /\ MainIdle

FatalfReturns ==
    /\ pc' = "createProjectDirectory"
    /\ UNCHANGED <<prog, versionStr, buildInfo, version, dirsCreated, nuspec, packed, runs, fromOutput, pathVars, mainVars>>

\* log.Fatalf: the process exits, nothing else changes
Fatalf ==
    /\ pc' = "fatal"
    /\ UNCHANGED <<prog, versionStr, buildInfo, version, dirsCreated, nuspec, packed, runs, fromOutput, pathVars, mainVars>>

-----------------------------------------------------------------------------
(* main of part_001 *)

\* readBuildInfo succeeds: build-info.yaml is read and decoded
ReadBuildInfo ==
    /\ prog = "modulo" /\ pc = "readBuildInfo"
    /\ buildInfo' = [Version |-> versionStr, loaded |-> TRUE]
    /\ pc' = "parseVersion"
    /\ UNCHANGED <<prog, versionStr, version, verr, dirsCreated, nuspec, packed, runs, fromOutput, pathVars, mainVars>>

\* readBuildInfo fails (file missing or not YAML): log.Fatalf
ReadBuildInfoFails ==
    /\ prog = "modulo" /\ pc = "readBuildInfo"
    /\ Fatalf
    /\ UNCHANGED verr

\* version, err := parseVersion(buildInfo.Product.Version)
ParseVersionStep ==
    /\ prog = "modulo" /\ pc = "parseVersion"
    /\ LET r == parseVersion(buildInfo.Version)
       IN  IF r.err # NoErr
           THEN /\ verr' = r.err
                /\ Fatalf
           ELSE /\ version' = r.out
                /\ verr' = NoErr
                /\ pc' = "createProjectDirectory"
                /\ UNCHANGED <<prog, versionStr, buildInfo, dirsCreated, nuspec, packed, runs, fromOutput, pathVars, mainVars>>

\* createProjectDirectory: MkdirAll payload and scripts
CreateProjectDirectory ==
    /\ prog = "modulo" /\ pc = "createProjectDirectory"
    /\ dirsCreated' = TRUE
    /\ pc' = "generateNuspec"
    /\ UNCHANGED <<prog, versionStr, buildInfo, version, verr, nuspec, packed, runs, fromOutput, pathVars, mainVars>>

CreateProjectDirectoryFails ==
    /\ prog = "modulo" /\ pc = "createProjectDirectory"
    /\ Fatalf
    /\ UNCHANGED verr

\* the file list of generateNuspec from the three os.Stat results
NuspecFiles(payloadExists, preExists, postExists) ==
    (IF payloadExists THEN <<FileRef("payload\\**", "InstallPath")>> ELSE <<>>)
    \o (IF preExists THEN <<FileRef("scripts\\preinstall.ps1", "tools\\install.ps1")>> ELSE <<>>)
    \o (IF postExists THEN <<FileRef("scripts\\postinstall.ps1", "tools\\chocolateyInstall.ps1")>>
        ELSE <<>>)

NuspecVersionParsed(bi, parsed) == parsed

\* Metadata.Version of the Package generateNuspec encodes
NuspecVersion(bi, parsed) == bi.Version

\* generateNuspec(buildInfo): the .nuspec is written in the working directory
GenerateNuspec ==
    /\ prog = "modulo" /\ pc = "generateNuspec"
    /\ \E payloadExists \in BOOLEAN, preExists \in BOOLEAN, postExists \in BOOLEAN :
           nuspec' = [written |-> TRUE,
                      Version |-> NuspecVersion(buildInfo, version),
                      Files   |-> NuspecFiles(payloadExists, preExists, postExists)]
    /\ pc' = "nugetPack"
    /\ UNCHANGED <<prog, versionStr, buildInfo, version, verr, dirsCreated, packed, runs, fromOutput, pathVars, mainVars>>

\* os.Create or the encoder fails
GenerateNuspecFails ==
    /\ prog = "modulo" /\ pc = "generateNuspec"
    /\ Fatalf
    /\ UNCHANGED verr

\* runCommand("nuget", "pack", ...) succeeds
NugetPack ==
    /\ prog = "modulo" /\ pc = "nugetPack"
    /\ packed' = TRUE
    /\ pc' = "done"
    /\ UNCHANGED <<prog, versionStr, buildInfo, version, verr, dirsCreated, nuspec, runs, fromOutput, pathVars, mainVars>>

NugetPackFails ==
    /\ prog = "modulo" /\ pc = "nugetPack"
    /\ Fatalf
    /\ UNCHANGED verr

-----------------------------------------------------------------------------
(* parseVersion of main.go applied to the configured version *)

ParseVersionMainStep ==
    /\ prog = "passthrough" /\ pc = "call"
    /\ LET r == parseVersionMain(versionStr)
       IN  /\ version' = r.out
           /\ verr' = r.err
    /\ pc' = "returned"
    /\ UNCHANGED <<prog, versionStr, buildInfo, dirsCreated, nuspec, packed, runs, fromOutput, pathVars, mainVars>>

-----------------------------------------------------------------------------
(* The normalized version is configured as product.version and the program
   is started again *)

Renormalize ==
    /\ pc \in {"done", "returned"}
    /\ verr = NoErr
    /\ runs < MaxRuns
    /\ prog' = prog
    /\ pc' = IF prog = "modulo" THEN "readBuildInfo" ELSE "call"
    /\ versionStr' = version
    /\ buildInfo' = NoBuildInfo
    /\ version' = <<>>
    /\ verr' = NoErr
    /\ dirsCreated' = FALSE
    /\ nuspec' = NoNuspec
    /\ packed' = FALSE
    /\ runs' = runs + 1
    /\ fromOutput' = TRUE
    /\ UNCHANGED <<pathVars, mainVars>>

Next ==
    \/ ReadBuildInfo
    \/ ReadBuildInfoFails
    \/ ParseVersionStep
    \/ CreateProjectDirectory
    \/ CreateProjectDirectoryFails
    \/ GenerateNuspec
    \/ GenerateNuspecFails
    \/ NugetPack
    \/ NugetPackFails
    \/ ParseVersionMainStep
    \/ Renormalize

Spec == Init /\ [][Next]_vars

-----------------------------------------------------------------------------
(* Vocabulary of the properties: decimal numerals read directly, without
   the machine integers of the program *)

AllDigits(s) == Len(s) > 0 /\ \A i \in 1..Len(s) : IsDigit(s[i])

HasSign(s) == Len(s) > 0 /\ s[1] \in {"+", "-"}

IsNegative(s) == Len(s) > 0 /\ s[1] = "-"

Body(s) == IF HasSign(s) THEN Tail(s) ELSE s

\* an optionally signed decimal integer
IsIntegerLiteral(s) == AllDigits(Body(s))

\* a decimal integer that is not negative: digits, optionally after "+"
IsNonNegLiteral(s) == IsIntegerLiteral(s) /\ ~IsNegative(s)

RECURSIVE StripZeros(_)
StripZeros(s) == IF Len(s) > 1 /\ s[1] = "0" THEN StripZeros(Tail(s)) ELSE s

RECURSIVE LexLE(_, _)
LexLE(a, b) ==
    IF a = <<>> THEN TRUE
    ELSE IF DigitVal(a[1]) < DigitVal(b[1]) THEN TRUE
    ELSE IF DigitVal(a[1]) > DigitVal(b[1]) THEN FALSE
    ELSE LexLE(Tail(a), Tail(b))

MagAtMost(digits, bound) ==
    LET c == StripZeros(digits)
    IN  Len(c) < Len(bound) \/ (Len(c) = Len(bound) /\ LexLE(c, bound))

\* the integer literal s lies in -2^63 .. 2^63-1
FitsInt(s) ==
    IF IsNegative(s) THEN MagAtMost(Body(s), AboveInt64Str) ELSE MagAtMost(Body(s), MaxInt64Str)

RECURSIVE HornerMod(_, _, _)
HornerMod(digits, m, acc) ==
    IF digits = <<>> THEN acc
    ELSE HornerMod(Tail(digits), m, (acc * 10 + DigitVal(digits[1])) % m)

\* the value of the digit string modulo m
ValueMod(digits, m) == HornerMod(digits, m, 0)

\* the mathematical residue in 0..m-1 of the integer literal s
MathMod(s, m) ==
    IF IsNegative(s) THEN (m - ValueMod(Body(s), m)) % m ELSE ValueMod(Body(s), m)

RECURSIVE DecNat(_)
DecNat(n) == IF n < 10 THEN <<DigitChar(n)>> ELSE DecNat(n \div 10) \o <<DigitChar(n % 10)>>

\* the integer literal s written canonically: no "+", no leading zeros, no "-0"
Canon(s) ==
    LET c == StripZeros(Body(s))
    IN  IF IsNegative(s) /\ c # <<"0">> THEN <<"-">> \o c ELSE c

Dotted(a, b, c) == a \o <<".">> \o b \o <<".">> \o c

CountOf(s, ch) == Cardinality({i \in 1..Len(s) : s[i] = ch})

\* number of dot-separated parts of s
PartCount(s) == CountOf(s, ".") + 1

\* the error classes of the specification
ErrorKind(e) ==
    IF e = NoErr THEN "none"
    ELSE IF e.fmt = "invalid version format: %s" THEN "InvalidVersionFormat"
    ELSE "InvalidVersionPart"

\* parseVersion of part_001 has returned in this run
Parsed == prog = "modulo" /\ buildInfo.loaded /\ pc # "parseVersion"

\* parseVersion of main.go has returned in this run
Returned == prog = "passthrough" /\ pc = "returned"

InputParts == Split(versionStr, ".")

OutputParts == Split(version, ".")

-----------------------------------------------------------------------------
(* C1 *)

\* what C1 promises for a version of three non-negative parts
ThreePartResult ==
    /\ verr = NoErr
    /\ version = Dotted(StripZeros(Body(InputParts[1])),
                        DecNat(ValueMod(Body(InputParts[2]), 256)),
                        DecNat(ValueMod(Body(InputParts[3]), 65536)))

ThreeNonNegParts ==
    /\ PartCount(versionStr) = 3
    /\ \A i \in 1..3 : IsNonNegLiteral(InputParts[i])
    /\ Len(InputParts[1]) # 4

\* C1 as stated: for every input of exactly 3 parts that are non-negative
\* integers and whose first part is not 4 characters long, parseVersion of
\* part_001 succeeds and returns "{major}.{minor mod 256}.{patch mod 65536}".
C1_Original == (Parsed /\ ThreeNonNegParts) => ThreePartResult

\* C1 (amended): for every input of exactly 3 parts that are non-negative
\* integers below 2^63 (the range of Go's int) and whose first part is not
\* 4 characters long, parseVersion of part_001 succeeds and returns
\* "{major}.{minor mod 256}.{patch mod 65536}"; values above the ceilings wrap.
C1_ModuloThreeParts ==
    (Parsed /\ ThreeNonNegParts /\ \A i \in 1..3 : FitsInt(InputParts[i])) => ThreePartResult

C1_Witness ==
    /\ Parsed
    /\ versionStr = <<"1", ".", "3", "0", "0", ".", "7", "0", "0", "0", "0">>
    /\ version = <<"1", ".", "4", "4", ".", "4", "4", "6", "4">>

-----------------------------------------------------------------------------
(* C2 *)

\* C2: when parseVersion of part_001 succeeds on a 3-part input, the major
\* component of the result is the number formed by the last two characters
\* of the first part if that part has length 4, and the first part parsed
\* directly otherwise; minor and patch come from parts 2 and 3.
C2_YearMajor ==
    (Parsed /\ verr = NoErr /\ PartCount(versionStr) = 3) =>
        /\ Len(OutputParts) = 3
        /\ OutputParts[1] = IF Len(InputParts[1]) = 4
                            THEN Canon(SubSeq(InputParts[1], 3, 4))
                            ELSE Canon(InputParts[1])
        /\ IsNonNegLiteral(InputParts[2]) =>
               OutputParts[2] = DecNat(ValueMod(Body(InputParts[2]), 256))
        /\ IsNonNegLiteral(InputParts[3]) =>
               OutputParts[3] = DecNat(ValueMod(Body(InputParts[3]), 65536))

C2_Witness ==
    /\ Parsed
    /\ versionStr = <<"2", "0", "2", "4", ".", "1", "0", ".", "1", "1">>
    /\ version = <<"2", "4", ".", "1", "0", ".", "1", "1">>

-----------------------------------------------------------------------------
(* C3 *)

\* C3 as stated: for every input of exactly 4 integer parts a.b.c.d on which
\* parseVersion of part_001 returns a version, major is a parsed directly,
\* minor is b mod 256 and patch is (c*1000 + d) mod 65536.
C3_FoldThenReduce ==
    (Parsed /\ verr = NoErr /\ PartCount(versionStr) = 4) =>
        /\ Len(OutputParts) = 3
        /\ OutputParts[1] = Canon(InputParts[1])
        /\ OutputParts[2] = DecNat(MathMod(InputParts[2], 256))
        /\ OutputParts[3] = DecNat((MathMod(InputParts[3], 65536) * 1000
                                        + MathMod(InputParts[4], 65536)) % 65536)

-----------------------------------------------------------------------------
(* C4 *)

\* C4: for every input whose number of dot-separated parts is neither 3 nor
\* 4, parseVersion of part_001 fails with InvalidVersionFormat and returns
\* no version string.
C4_InvalidFormat ==
    (Parsed /\ PartCount(versionStr) \notin {3, 4}) =>
        /\ ErrorKind(verr) = "InvalidVersionFormat"
        /\ verr.num = versionStr
        /\ version = <<>>
        /\ pc = "fatal"

C4_Witness ==
    /\ Parsed
    /\ versionStr = <<"1", ".", "2">>
    /\ ErrorKind(verr) = "InvalidVersionFormat"

-----------------------------------------------------------------------------
(* C5 *)

\* needle occurs in hay as a contiguous substring
Contains(hay, needle) ==
    \E i \in 0..(Len(hay) - Len(needle)) : SubSeq(hay, i + 1, i + Len(needle)) = needle

\* C5 as stated: for every input with 3 or 4 parts of which at least one is
\* not an integer, parseVersion of part_001 fails with InvalidVersionPart,
\* the error message contains an offending segment verbatim, and no version
\* is returned.
C5_InvalidPart ==
    (/\ Parsed
     /\ PartCount(versionStr) \in {3, 4}
     /\ \E i \in 1..Len(InputParts) : ~IsIntegerLiteral(InputParts[i])) =>
        /\ ErrorKind(verr) = "InvalidVersionPart"
        /\ \E i \in 1..Len(InputParts) :
               ~IsIntegerLiteral(InputParts[i]) /\ Contains(ErrorText(verr), InputParts[i])
        /\ version = <<>>

-----------------------------------------------------------------------------
(* C6 *)

\* C6 as stated: whenever parseVersion of part_001 succeeds, the result is
\* exactly 3 non-negative integer components joined by ".", with minor in
\* 0..255 and patch in 0..65535; and an input with a negative or explicitly
\* signed component is never turned into a version.
C6_NormalizedShape ==
    /\ (Parsed /\ verr = NoErr) =>
           /\ Len(OutputParts) = 3
           /\ \A i \in 1..3 : AllDigits(OutputParts[i])
           /\ MagAtMost(OutputParts[2], <<"2", "5", "5">>)
           /\ MagAtMost(OutputParts[3], <<"6", "5", "5", "3", "5">>)
    /\ (Parsed /\ \E i \in 1..Len(InputParts) : HasSign(InputParts[i])) => verr # NoErr

-----------------------------------------------------------------------------
(* C7 *)

\* the i-th part is the first one that is not numeric
FirstOffending(numeric(_), i) ==
    /\ ~numeric(InputParts[i])
    /\ \A j \in 1..(i - 1) : numeric(InputParts[j])

\* what C7 says of parseVersion of main.go for a given reading of "numeric"
PassThroughContract(numeric(_)) ==
    Returned =>
        /\ (verr = NoErr) <=> (\A i \in 1..Len(InputParts) : numeric(InputParts[i]))
        /\ verr = NoErr => version = versionStr
        /\ verr # NoErr =>
               /\ version = <<>>
               /\ verr.fmt = "invalid version part: %q is not a number"
               /\ \E i \in 1..Len(InputParts) :
                      FirstOffending(numeric, i) /\ verr.num = InputParts[i]

\* a decimal integer that Go's int can hold
IsIntNumeral(s) == IsIntegerLiteral(s) /\ FitsInt(s)

\* C7 as stated: parseVersion of main.go succeeds exactly when every
\* dot-separated part is numeric, then returns the input unchanged; otherwise
\* it fails naming the first offending part; any number of parts is accepted.
C7_Original == PassThroughContract(IsIntegerLiteral)

\* C7 (amended): parseVersion of main.go succeeds exactly when every
\* dot-separated part is an optionally signed decimal integer that fits Go's
\* int (-2^63 .. 2^63-1), and then returns the input string unchanged
\* character for character; otherwise it fails with an error naming the first
\* offending part.  Any number of parts is accepted.
C7_PassThrough == PassThroughContract(IsIntNumeral)

C7_Witness ==
    /\ Returned
    /\ verr = NoErr
    /\ PartCount(versionStr) = 5
    /\ InputParts[1] = <<"0", "1">>
    /\ version = versionStr

-----------------------------------------------------------------------------
(* C8 *)

\* C8: for every input x accepted by parseVersion of main.go,
\* parseVersion(parseVersion(x)) succeeds and equals parseVersion(x).
C8_PassThroughIdempotent ==
    (Returned /\ verr = NoErr) =>
        LET again == parseVersionMain(version)
        IN  again.err = NoErr /\ again.out = version

C8_Witness ==
    /\ Returned
    /\ fromOutput
    /\ verr = NoErr
    /\ PartCount(versionStr) = 3
    /\ version = versionStr

-----------------------------------------------------------------------------
(* C9 *)

\* a version of three unsigned components with minor < 256 and patch < 65536
InRangeVersion ==
    /\ PartCount(versionStr) = 3
    /\ \A i \in 1..3 : AllDigits(InputParts[i])
    /\ MagAtMost(InputParts[2], <<"2", "5", "5">>)
    /\ MagAtMost(InputParts[3], <<"6", "5", "5", "3", "5">>)

Unchanged == verr = NoErr /\ version = versionStr

Canonical == \A i \in 1..3 : StripZeros(InputParts[i]) = InputParts[i]

\* C9 as stated: every 3-component version whose components are non-negative
\* integers (written without sign or leading zeros) with minor < 256 and
\* patch < 65536 is returned unchanged by parseVersion of part_001, and so
\* is every output of parseVersion.
C9_Original ==
    /\ (Parsed /\ InRangeVersion /\ Canonical) => Unchanged
    /\ (Parsed /\ fromOutput) => Unchanged

\* C9 (amended): every 3-component version whose components are non-negative
\* integers written without sign or leading zeros, whose first component is
\* not 4 characters long and is below 2^63, with minor < 256 and
\* patch < 65536, is returned unchanged; and parseVersion applied to one of
\* its own outputs whose first component is not 4 characters long returns
\* that output again.
C9_FixedPoint ==
    /\ (/\ Parsed
        /\ InRangeVersion
        /\ Canonical
        /\ Len(InputParts[1]) # 4
        /\ FitsInt(InputParts[1])) => Unchanged
    /\ (Parsed /\ fromOutput /\ Len(InputParts[1]) # 4) => Unchanged

C9_Witness ==
    /\ Parsed
    /\ fromOutput
    /\ versionStr = <<"2", "4", ".", "1", "0", ".", "1", "1">>
    /\ version = <<"2", "4", ".", "1", "0", ".", "1", "1">>

-----------------------------------------------------------------------------
(* C10 *)

\* C10 as stated: the version written into the .nuspec metadata by the build
\* driver of part_001 is the version returned by parseVersion, not the raw
\* configured string.
C10_ManifestVersion ==
    (prog = "modulo" /\ nuspec.written) => nuspec.Version = version

-----------------------------------------------------------------------------
(* Install location: the path functions of main.go and part_000.  The build is
   the Windows one the tool is made for: os.PathSeparator is the backslash. *)

Separator == "\\"

MaxPathLen == 5

RECURSIVE ReplaceFirst(_, _, _)
ReplaceFirst(s, old, new) ==
    IF s = <<>> THEN <<>>
    ELSE IF s[1] = old THEN <<new>> \o Tail(s)
    ELSE <<s[1]>> \o ReplaceFirst(Tail(s), old, new)

RECURSIVE ReplaceAll(_, _, _)
\* strings.ReplaceAll(s, old, new) for one-character old and new
ReplaceAll(s, old, new) ==
    IF s = <<>> THEN <<>>
    ELSE <<IF s[1] = old THEN new ELSE s[1]>> \o ReplaceAll(Tail(s), old, new)

\* strings.HasSuffix(s, c) for a one-character suffix
HasSuffix(s, c) == Len(s) >= 1 /\ s[Len(s)] = c

TrimRightOnce(s, c) ==
    IF HasSuffix(s, c) THEN SubSeq(s, 1, Len(s) - 1) ELSE s

RECURSIVE TrimRight(_, _)
\* strings.TrimRight(s, c) for a one-character cutset
TrimRight(s, c) ==
    IF HasSuffix(s, c) THEN TrimRight(SubSeq(s, 1, Len(s) - 1), c) ELSE s

\* filepath.FromSlash
FromSlash(path) == ReplaceAll(path, "/", Separator)

\* NormalizePath of part_000
NormalizePath(input) == FromSlash(ReplaceAll(input, "\\", "/"))

\* normalizeInstallLocation of main.go: a trailing backslash is added when
\* the path does not end in one
normalizeInstallLocation(path) ==
    LET p == ReplaceAll(path, "/", "\\")
    IN  IF ~HasSuffix(p, "\\") THEN p \o <<"\\">> ELSE p

\* normalizeInstallLocation of part_000: trailing backslashes are trimmed
normalizeInstallLocationTrim(path) ==
    TrimRight(ReplaceAll(path, "/", "\\"), "\\")

RECURSIVE NonEmpty(_)
\* the elements of a list of strings that are not empty
NonEmpty(elems) ==
    IF elems = <<>> THEN <<>>
    ELSE (IF elems[1] = <<>> THEN <<>> ELSE <<elems[1]>>) \o NonEmpty(Tail(elems))

\* filepath.Clean for a drive-letter path without . and .. elements:
\* slashes become backslashes, repeated and trailing separators go
Clean(path) == Join(NonEmpty(Split(FromSlash(path), Separator)), Separator)

\* filepath.Join(elems...)
FilepathJoin(elems) == Clean(Join(NonEmpty(elems), Separator))

\* getStandardDirectories of part_000: the map literal as <<key, identifier>> pairs
getStandardDirectories(home) == <<
    <<<<"C", ":", "\\", "P", "r", "o", "g", "r", "a", "m", " ", "F", "i", "l", "e", "s">>,
      <<"P", "r", "o", "g", "r", "a", "m", "F", "i", "l", "e", "s", "F", "o", "l", "d", "e", "r">>>>,
    <<<<"C", ":", "\\", "P", "r", "o", "g", "r", "a", "m", " ", "F", "i", "l", "e", "s", " ", "(", "x", "8", "6", ")">>,
      <<"P", "r", "o", "g", "r", "a", "m", "F", "i", "l", "e", "s", "6", "4", "3", "2", "F", "o", "l", "d", "e", "r">>>>,
    <<<<"C", ":", "\\", "P", "r", "o", "g", "r", "a", "m", " ", "F", "i", "l", "e", "s", "\\", "C", "o", "m", "m", "o", "n", " ", "F", "i", "l", "e", "s">>,
      <<"C", "o", "m", "m", "o", "n", "F", "i", "l", "e", "s", "F", "o", "l", "d", "e", "r">>>>,
    <<<<"C", ":", "\\", "P", "r", "o", "g", "r", "a", "m", " ", "F", "i", "l", "e", "s", "\\", "C", "o", "m", "m", "o", "n", " ", "F", "i", "l", "e", "s", " ", "(", "x", "8", "6", ")">>,
      <<"C", "o", "m", "m", "o", "n", "F", "i", "l", "e", "s", "6", "4", "3", "2", "F", "o", "l", "d", "e", "r">>>>,
    <<<<"C", ":", "\\", "P", "r", "o", "g", "r", "a", "m", "D", "a", "t", "a">>,
      <<"C", "o", "m", "m", "o", "n", "A", "p", "p", "D", "a", "t", "a", "F", "o", "l", "d", "e", "r">>>>,
    <<<<"C", ":", "\\", "W", "i", "n", "d", "o", "w", "s">>,
      <<"W", "i", "n", "d", "o", "w", "s", "F", "o", "l", "d", "e", "r">>>>,
    <<<<"C", ":", "\\", "W", "i", "n", "d", "o", "w", "s", "\\", "S", "y", "s", "t", "e", "m", "3", "2">>,
      <<"S", "y", "s", "t", "e", "m", "F", "o", "l", "d", "e", "r">>>>,
    <<<<"C", ":", "\\", "W", "i", "n", "d", "o", "w", "s", "\\", "S", "y", "s", "W", "O", "W", "6", "4">>,
      <<"S", "y", "s", "t", "e", "m", "6", "4", "F", "o", "l", "d", "e", "r">>>>,
    <<<<"C", ":", "\\", "W", "i", "n", "d", "o", "w", "s", "\\", "F", "o", "n", "t", "s">>,
      <<"F", "o", "n", "t", "s", "F", "o", "l", "d", "e", "r">>>>,
    <<FilepathJoin(<<home, <<"A", "p", "p", "D", "a", "t", "a">>, <<"L", "o", "c", "a", "l">>>>),
      <<"L", "o", "c", "a", "l", "A", "p", "p", "D", "a", "t", "a", "F", "o", "l", "d", "e", "r">>>>,
    <<FilepathJoin(<<home, <<"A", "p", "p", "D", "a", "t", "a">>, <<"R", "o", "a", "m", "i", "n", "g">>>>),
      <<"A", "p", "p", "D", "a", "t", "a", "F", "o", "l", "d", "e", "r">>>>,
    <<FilepathJoin(<<home, <<"D", "e", "s", "k", "t", "o", "p">>>>),
      <<"D", "e", "s", "k", "t", "o", "p", "F", "o", "l", "d", "e", "r">>>>,
    <<FilepathJoin(<<home, <<"D", "o", "c", "u", "m", "e", "n", "t", "s">>>>),
      <<"P", "e", "r", "s", "o", "n", "a", "l", "F", "o", "l", "d", "e", "r">>>>,
    <<FilepathJoin(<<home, <<"F", "a", "v", "o", "r", "i", "t", "e", "s">>>>),
      <<"F", "a", "v", "o", "r", "i", "t", "e", "s", "F", "o", "l", "d", "e", "r">>>>,
    <<FilepathJoin(<<home, <<"M", "y", " ", "P", "i", "c", "t", "u", "r", "e", "s">>>>),
      <<"M", "y", "P", "i", "c", "t", "u", "r", "e", "s", "F", "o", "l", "d", "e", "r">>>>,
    <<FilepathJoin(<<home, <<"N", "e", "t", "H", "o", "o", "d">>>>),
      <<"N", "e", "t", "H", "o", "o", "d", "F", "o", "l", "d", "e", "r">>>>,
    <<FilepathJoin(<<home, <<"P", "r", "i", "n", "t", "H", "o", "o", "d">>>>),
      <<"P", "r", "i", "n", "t", "H", "o", "o", "d", "F", "o", "l", "d", "e", "r">>>>,
    <<FilepathJoin(<<home, <<"R", "e", "c", "e", "n", "t">>>>),
      <<"R", "e", "c", "e", "n", "t", "F", "o", "l", "d", "e", "r">>>>,
    <<FilepathJoin(<<home, <<"S", "e", "n", "d", "T", "o">>>>),
      <<"S", "e", "n", "d", "T", "o", "F", "o", "l", "d", "e", "r">>>>,
    <<FilepathJoin(<<home, <<"S", "t", "a", "r", "t", " ", "M", "e", "n", "u">>>>),
      <<"S", "t", "a", "r", "t", "M", "e", "n", "u", "F", "o", "l", "d", "e", "r">>>>,
    <<FilepathJoin(<<home, <<"S", "t", "a", "r", "t", "u", "p">>>>),
      <<"S", "t", "a", "r", "t", "u", "p", "F", "o", "l", "d", "e", "r">>>>,
    <<<<"C", ":", "\\", "W", "i", "n", "d", "o", "w", "s", "\\", "S", "y", "s", "t", "e", "m">>,
      <<"S", "y", "s", "t", "e", "m", "1", "6", "F", "o", "l", "d", "e", "r">>>>,
    <<<<"C", ":", "\\", "W", "i", "n", "d", "o", "w", "s", "\\", "T", "e", "m", "p">>,
      <<"T", "e", "m", "p", "F", "o", "l", "d", "e", "r">>>>,
    <<<<"C", ":", "\\", "W", "i", "n", "d", "o", "w", "s", "\\", "S", "y", "s", "t", "e", "m", "3", "2", "\\", "c", "o", "n", "f", "i", "g", "\\", "s", "y", "s", "t", "e", "m", "p", "r", "o", "f", "i", "l", "e", "\\", "A", "p", "p", "D", "a", "t", "a", "\\", "L", "o", "c", "a", "l">>,
      <<"L", "o", "c", "a", "l", "A", "p", "p", "D", "a", "t", "a", "F", "o", "l", "d", "e", "r">>>> >>

LookupPrefix(dirs, key) ==
    LET hits == {i \in 1..Len(dirs) :
                    /\ Len(dirs[i][1]) <= Len(key)
                    /\ SubSeq(key, 1, Len(dirs[i][1])) = dirs[i][1]}
    IN  IF hits = {} THEN [exists |-> FALSE, identifier |-> <<>>]
        ELSE [exists |-> TRUE, identifier |-> dirs[CHOOSE i \in hits : TRUE][2]]

\* the comma-ok map lookup dirs[key]
Lookup(dirs, key) ==
    LET hits == {i \in 1..Len(dirs) : dirs[i][1] = key}
    IN  IF hits = {} THEN [exists |-> FALSE, identifier |-> <<>>]
        ELSE [exists |-> TRUE, identifier |-> dirs[CHOOSE i \in hits : TRUE][2]]

\* resolveInstallLocation of part_000
resolveInstallLocation(installLocation, dirs) ==
    LET normalized == NormalizePath(installLocation)
        found == Lookup(dirs, normalized)
    IN  IF found.exists THEN found.identifier ELSE normalized

(* Configured install locations and home directories the model starts from *)

HomeDirs == { <<"C", ":", "\\", "U", "s", "e", "r", "s", "\\", "u">>,
              <<"D", ":", "/", "u", "/">> }

PathAlphabet == {"/", "\\", "a"}

RECURSIVE PathsUpTo(_)
\* every string over PathAlphabet of length at most n
PathsUpTo(n) ==
    IF n = 0 THEN {<<>>}
    ELSE LET shorter == PathsUpTo(n - 1)
         IN  shorter \cup {Append(s, c) : s \in {t \in shorter : Len(t) = n - 1},
                                           c \in PathAlphabet}

Slashes == {"/", "\\"}

RECURSIVE JoinAny(_)
\* the elements joined, each junction by either separator
JoinAny(elems) ==
    IF Len(elems) = 1 THEN {elems[1]}
    ELSE {elems[1] \o <<s>> \o rest : s \in Slashes, rest \in JoinAny(Tail(elems))}

\* nothing, one separator or two after a path
Trailers == {<<>>} \cup {<<s>> : s \in Slashes} \cup {<<s, t>> : s \in Slashes, t \in Slashes}

\* directories of the table, and directories below and beside them
KnownPaths(home) == {
    <<<<"C", ":">>, <<"P", "r", "o", "g", "r", "a", "m", " ", "F", "i", "l", "e", "s">>>>,
    <<<<"C", ":">>, <<"P", "r", "o", "g", "r", "a", "m", " ", "F", "i", "l", "e", "s">>, <<"F", "o", "o">>>>,
    <<<<"C", ":">>, <<"W", "i", "n", "d", "o", "w", "s">>, <<"S", "y", "s", "t", "e", "m", "3", "2">>>>,
    <<<<"C", ":">>, <<"T", "o", "o", "l", "s">>>>,
    Split(Clean(home), Separator) \o <<<<"D", "e", "s", "k", "t", "o", "p">>>>,
    Split(Clean(home), Separator) \o <<<<"D", "e", "s", "k", "t", "o", "p">>, <<"x">>>> }

PathInputs(home) ==
    PathsUpTo(MaxPathLen)
    \cup {p \o t : p \in UNION {JoinAny(k) : k \in KnownPaths(home)}, t \in Trailers}

-----------------------------------------------------------------------------
(* The path functions applied to the configured install location *)

\* no build driver is running
CoreIdle ==
    /\ prog = "none"
    /\ pc = "idle"
    /\ versionStr = <<>>
    /\ buildInfo = NoBuildInfo
    /\ version = <<>>
    /\ verr = NoErr
    /\ dirsCreated = FALSE
    /\ nuspec = NoNuspec
    /\ packed = FALSE
    /\ runs = 1
    /\ fromOutput = FALSE

InitPath ==
    /\ CoreIdle
    /\ MainIdle
    /\ pathFn \in {"enforce", "trim", "resolve"}
    /\ homeDir \in HomeDirs
    /\ rawPath \in PathInputs(homeDir)
    /\ pathOut = [done |-> FALSE, out |-> <<>>]
    /\ pathAgain = [done |-> FALSE, out |-> <<>>]

Return(out) ==
    /\ pathOut' = [done |-> TRUE, out |-> out]
    /\ UNCHANGED <<coreVars, mainVars, pathFn, rawPath, homeDir, pathAgain>>

\* normalizeInstallLocation(buildInfo.InstallLocation) in main.go
NormalizeInstallLocationStep ==
    /\ pathFn = "enforce" /\ ~pathOut.done
    /\ Return(normalizeInstallLocation(rawPath))

\* normalizeInstallLocation(installLocation) in part_000
NormalizeInstallLocationTrimStep ==
    /\ pathFn = "trim" /\ ~pathOut.done
    /\ Return(normalizeInstallLocationTrim(rawPath))

\* resolveInstallLocation(installLocation, getStandardDirectories())
ResolveInstallLocationStep ==
    /\ pathFn = "resolve" /\ ~pathOut.done
    /\ Return(resolveInstallLocation(rawPath, getStandardDirectories(homeDir)))

ReturnAgain(out) ==
    /\ pathAgain' = [done |-> TRUE, out |-> out]
    /\ UNCHANGED <<coreVars, mainVars, pathFn, rawPath, homeDir, pathOut>>

\* normalizeInstallLocation of main.go applied to its own result
NormalizeInstallLocationAgainStep ==
    /\ pathFn = "enforce" /\ pathOut.done /\ ~pathAgain.done
    /\ ReturnAgain(normalizeInstallLocation(pathOut.out))

\* normalizeInstallLocation of part_000 applied to its own result
NormalizeInstallLocationTrimAgainStep ==
    /\ pathFn = "trim" /\ pathOut.done /\ ~pathAgain.done
    /\ ReturnAgain(normalizeInstallLocationTrim(pathOut.out))

NextPath ==
    \/ NormalizeInstallLocationStep
    \/ NormalizeInstallLocationTrimStep
    \/ ResolveInstallLocationStep
    \/ NormalizeInstallLocationAgainStep
    \/ NormalizeInstallLocationTrimAgainStep

SpecPath == InitPath /\ [][NextPath]_vars

-----------------------------------------------------------------------------
(* Vocabulary of the install-location properties, read position by position *)

\* s with a backslash where s has a slash
SlashToBackslash(s) == [i \in 1..Len(s) |-> IF s[i] = "/" THEN "\\" ELSE s[i]]

\* the number of positions of s that hold c
Count(s, c) == Cardinality({i \in 1..Len(s) : s[i] = c})

\* s without the backslashes it ends in
StripTrailing(s) ==
    LET keep == CHOOSE k \in 0..Len(s) :
                    /\ k = 0 \/ s[k] # "\\"
                    /\ \A i \in (k + 1)..Len(s) : s[i] = "\\"
    IN  SubSeq(s, 1, keep)

\* a normalizeInstallLocation has returned
Normalized == pathFn \in {"enforce", "trim"} /\ pathOut.done

\* resolveInstallLocation has returned
Resolved == pathFn = "resolve" /\ pathOut.done

\* the identifiers the table of this home directory gives to a path
IdentifiersOf(path) ==
    LET dirs == getStandardDirectories(homeDir)
    IN  {dirs[i][2] : i \in {j \in 1..Len(dirs) : dirs[j][1] = path}}

\* the paths the properties name
HomeOnC == <<"C", ":", "\\", "U", "s", "e", "r", "s", "\\", "u">>

DesktopOnC ==
    <<"C", ":", "/", "U", "s", "e", "r", "s", "/", "u", "/", "D", "e", "s", "k", "t", "o", "p">>

HomeOnD == <<"D", ":", "/", "u", "/">>

DesktopOnD == <<"D", ":", "\\", "u", "\\", "D", "e", "s", "k", "t", "o", "p">>

DesktopFolder == <<"D", "e", "s", "k", "t", "o", "p", "F", "o", "l", "d", "e", "r">>

BelowProgramFiles ==
    <<"C", ":", "/", "P", "r", "o", "g", "r", "a", "m", " ", "F", "i", "l", "e", "s", "/", "F", "o", "o">>

BelowProgramFilesLiteral ==
    <<"C", ":", "\\", "P", "r", "o", "g", "r", "a", "m", " ", "F", "i", "l", "e", "s", "\\", "F", "o", "o">>

-----------------------------------------------------------------------------
(* C12 *)

\* C12: the result of normalizeInstallLocation, in main.go and in part_000,
\* holds no forward slash; position by position it is the input with each
\* slash turned into a backslash, and it differs from that only at the end:
\* by one added backslash (main.go) or by removed backslashes (part_000).
C12_SlashesReplaced ==
    Normalized =>
        LET out == pathOut.out
            expect == SlashToBackslash(rawPath)
        IN  /\ \A i \in 1..Len(out) : out[i] # "/"
            /\ \A i \in 1..Len(out) : i <= Len(expect) => out[i] = expect[i]
            /\ pathFn = "enforce" =>
                   /\ Len(out) \in {Len(expect), Len(expect) + 1}
                   /\ Len(out) > Len(expect) => out[Len(out)] = "\\"
            /\ pathFn = "trim" =>
                   /\ Len(out) <= Len(expect)
                   /\ \A i \in (Len(out) + 1)..Len(expect) : expect[i] = "\\"

\* a path with two slashes and another character after them was normalized
C12_Witness ==
    /\ Normalized
    /\ Count(rawPath, "/") >= 2
    /\ \E i \in 1..Len(rawPath), j \in 1..Len(rawPath) :
           i < j /\ rawPath[i] = "/" /\ rawPath[j] \notin Slashes
    /\ Count(pathOut.out, "\\") >= 2

-----------------------------------------------------------------------------
(* C13 *)

\* C13: the result of normalizeInstallLocation of main.go ends with exactly
\* one backslash, so that a child name appended to it is separated from it by
\* exactly one separator, whatever separators the input ends in.
C13_OneTrailingSeparator ==
    (pathFn = "enforce" /\ pathOut.done) =>
        LET out == pathOut.out
        IN  /\ HasSuffix(out, "\\")
            /\ Len(out) >= 2 => out[Len(out) - 1] # "\\"

-----------------------------------------------------------------------------
(* C14 *)

\* C14: resolveInstallLocation returns the identifier of the table when the
\* whole normalized path is a key of the table, and the normalized path
\* itself otherwise; a path that only begins with a key is returned as it is.
C14_WholeStringMatch ==
    Resolved =>
        LET out == pathOut.out
            path == SlashToBackslash(rawPath)
        IN  /\ IdentifiersOf(path) # {} => out \in IdentifiersOf(path)
            /\ IdentifiersOf(path) = {} => out = path
            /\ (homeDir = HomeOnC /\ rawPath = DesktopOnC) => out = DesktopFolder
            /\ (homeDir = HomeOnD /\ rawPath = DesktopOnD) => out = DesktopFolder
            /\ rawPath = BelowProgramFiles => out = BelowProgramFilesLiteral

\* a directory below Program Files was resolved and came back literally
C14_Witness ==
    /\ Resolved
    /\ rawPath = BelowProgramFiles
    /\ pathOut.out = BelowProgramFilesLiteral

-----------------------------------------------------------------------------
(* C15 *)

\* C15: resolveInstallLocation treats the spellings of a path alike: the
\* result for a path is the result for the same path written with
\* backslashes and without trailing separators, so a directory of the table
\* written with a trailing separator still gets its identifier.
C15_SpellingInsensitive ==
    Resolved =>
        LET out == pathOut.out
            path == StripTrailing(SlashToBackslash(rawPath))
        IN  path # <<>> =>
                /\ out = resolveInstallLocation(path, getStandardDirectories(homeDir))
                /\ IdentifiersOf(path) # {} => out \in IdentifiersOf(path)

-----------------------------------------------------------------------------
(* main.go: the project directory and build-info.yaml the driver starts from *)

UpperChars == <<"A", "B", "C", "D", "E", "F", "G", "H", "I", "J", "K", "L", "M",
               "N", "O", "P", "Q", "R", "S", "T", "U", "V", "W", "X", "Y", "Z">>

LowerChars == <<"a", "b", "c", "d", "e", "f", "g", "h", "i", "j", "k", "l", "m",
               "n", "o", "p", "q", "r", "s", "t", "u", "v", "w", "x", "y", "z">>

ToLowerKeep(s) == s

\* strings.ToLower for ASCII letters
ToLower(s) ==
    [i \in 1..Len(s) |->
        IF \E k \in 1..Len(UpperChars) : UpperChars[k] = s[i]
        THEN LowerChars[CHOOSE k \in 1..Len(UpperChars) : UpperChars[k] = s[i]]
        ELSE s[i]]

\* strings.HasPrefix
HasPrefix(s, prefix) == Len(prefix) <= Len(s) /\ SubSeq(s, 1, Len(prefix)) = prefix

\* strings.HasSuffix for a suffix of any length
HasSuffixString(s, suffix) ==
    Len(suffix) <= Len(s) /\ SubSeq(s, Len(s) - Len(suffix) + 1, Len(s)) = suffix

\* entries the payload directory may hold, in the lexical order filepath.Walk
\* visits them; a path is the sequence of its names below payload
PayloadPaths == << <<"a">>, <<"a", "c">>, <<"b">> >>

Kinds == {"none", "file", "dir"}

Parent(p) == SubSeq(p, 1, Len(p) - 1)

\* an entry exists only inside a directory
WellFormed(tree) ==
    \A i \in 1..Len(PayloadPaths) :
        LET p == PayloadPaths[i]
        IN  (tree[p] # "none" /\ Len(p) > 1) => tree[Parent(p)] = "dir"

PayloadTrees ==
    {tree \in [{PayloadPaths[i] : i \in 1..Len(PayloadPaths)} -> Kinds] : WellFormed(tree)}

EmptyTree == [p \in {PayloadPaths[i] : i \in 1..Len(PayloadPaths)} |-> "none"]

Payloads ==
    {[exists |-> FALSE, tree |-> EmptyTree]} \cup {[exists |-> TRUE, tree |-> t] : t \in PayloadTrees}

PreinstallPs1 == <<"p", "r", "e", "i", "n", "s", "t", "a", "l", "l", ".", "p", "s", "1">>

PreInstall2PS1 == <<"P", "r", "e", "I", "n", "s", "t", "a", "l", "l", "2", ".", "P", "S", "1">>

PostinstallPs1 == <<"p", "o", "s", "t", "i", "n", "s", "t", "a", "l", "l", ".", "p", "s", "1">>

ReadmeTxt == <<"r", "e", "a", "d", "m", "e", ".", "t", "x", "t">>

\* a sub-directory of the scripts directory with the name of a script
PreinstallDPs1 == <<"p", "r", "e", "i", "n", "s", "t", "a", "l", "l", ".", "d", ".", "p", "s", "1">>

\* the regular files the scripts directory may hold
ScriptSets ==
    { {}, {PreinstallPs1}, {PostinstallPs1, PreInstall2PS1},
      {PreinstallPs1, PostinstallPs1, ReadmeTxt},
      {PreinstallPs1, PreInstall2PS1, PostinstallPs1} }

\* the scripts directory: absent, or with regular files and sub-directories
ScriptsDirs ==
    {[exists |-> FALSE, files |-> {}, dirs |-> {}]}
    \cup {[exists |-> TRUE, files |-> f, dirs |-> {}] : f \in ScriptSets}
    \cup {[exists |-> TRUE, files |-> f, dirs |-> {PreinstallDPs1}] : f \in {{}, {PostinstallPs1}}}

NoScript ==
    [written |-> FALSE, installLocation |-> <<>>, copiesPayload |-> FALSE,
     postAction |-> <<>>, postScripts |-> <<>>, sections |-> <<>>]

NoBeforeModify == [written |-> FALSE, content |-> <<>>]

NoTools == [exists |-> FALSE, install |-> NoScript, beforeModify |-> NoBeforeModify]

\* the project directory before its first build: no tools, no build, no
\* .nuspec; buildFiles are the files of the build directory
Projects ==
    {[payload |-> p, scripts |-> s, buildInfoYaml |-> y, build |-> FALSE, buildFiles |-> {},
      tools |-> NoTools, nuspecFile |-> FALSE] :
        p \in Payloads, s \in ScriptsDirs, y \in BOOLEAN}

AppName == <<"a", "p", "p">>

ComApp == <<"c", "o", "m", ".", "a", "p", "p">>

\* product.name and product.identifier of build-info.yaml
Products ==
    { [Name |-> AppName, Identifier |-> ComApp], [Name |-> AppName, Identifier |-> AppName] }

NupkgExt == <<".", "n", "u", "p", "k", "g">>

\* the name nuget pack gives the package of a .nuspec: <id>.<version>.nupkg
NugetPackageName(identifier, versionString) ==
    identifier \o <<".">> \o versionString \o NupkgExt

\* builtPkgName of main
BuiltPkgName(name, versionString) == name \o <<"-">> \o versionString \o NupkgExt

EarlierVersion == <<"1", ".", "2", ".", "2">>

ThisVersion == <<"1", ".", "2", ".", "3">>

LaterVersion == <<"1", ".", "2", ".", "4">>

\* a file of the build directory and the run that produced its content
BuildFile(name, origin) == [name |-> name, origin |-> origin]

\* packages earlier builds of the product may have left in build: renamed
\* ones of an earlier and of this version, and ones whose rename failed
LeftBy(product) ==
    { BuildFile(BuiltPkgName(product.Name, EarlierVersion), "earlier"),
      BuildFile(BuiltPkgName(product.Name, ThisVersion), "earlier"),
      BuildFile(NugetPackageName(product.Identifier, EarlierVersion), "earlier"),
      BuildFile(NugetPackageName(product.Identifier, LaterVersion), "earlier") }

\* a script-only project that has been built before
BuiltProjects(product) ==
    {[payload |-> [exists |-> TRUE, tree |-> EmptyTree],
      scripts |-> [exists |-> TRUE, files |-> {PostinstallPs1}, dirs |-> {}],
      buildInfoYaml |-> TRUE, build |-> TRUE, buildFiles |-> left,
      tools |-> NoTools, nuspecFile |-> FALSE] : left \in SUBSET LeftBy(product)}

InstallLocations == { <<>>, <<"C", ":", "/", "a">>, <<"C", ":", "\\", "a", "\\">> }

PostInstallActions ==
    { <<>>, <<"n", "o", "n", "e">>, <<"L", "o", "g", "o", "u", "t">>,
      <<"R", "E", "S", "T", "A", "R", "T">>,
      <<"r", "e", "b", "o", "o", "t">> }

SigningCertificates == { <<>>, <<"C", "N", "=", "x">> }

\* what build-info.yaml configures besides the version
Configs ==
    [InstallLocation : InstallLocations, PostInstallAction : PostInstallActions,
     SigningCertificate : SigningCertificates,
     Name : {AppName}, Identifier : {ComApp}]

\* the configurations of the projects that have been built before
BuiltConfigs(product) ==
    [InstallLocation : {<<>>}, PostInstallAction : {<<>>},
     SigningCertificate : SigningCertificates,
     Name : {product.Name}, Identifier : {product.Identifier}]

MainVersions == { <<"1", ".", "2", ".", "3">>, <<"1", ".", "a", ".", "3">> }

DriverVersions ==
    { <<"1", ".", "2", ".", "3">>, <<"1", ".", "a", ".", "3">>,
      <<"2", "0", "2", "4", ".", "1", "0", ".", "1", "1">>, <<"1", ".", "2">> }

-----------------------------------------------------------------------------
(* main.go: the functions main calls *)

verifyProjectStructureEither(p) ==
    IF ~p.payload.exists \/ ~p.scripts.exists
    THEN "either 'payload' or 'scripts' directory must exist in the project directory"
    ELSE IF ~p.buildInfoYaml
    THEN "'build-info.yaml' file is missing in the project directory"
    ELSE "nil"

\* verifyProjectStructure: the error it returns, "nil" for none; os.Stat
\* reports not-exist exactly for what the project directory does not hold
verifyProjectStructure(p) ==
    LET payloadExists == p.payload.exists
        scriptsExists == p.scripts.exists
    IN  IF ~payloadExists /\ ~scriptsExists
        THEN "either 'payload' or 'scripts' directory must exist in the project directory"
        ELSE IF ~p.buildInfoYaml
        THEN "'build-info.yaml' file is missing in the project directory"
        ELSE "nil"

\* the entries filepath.Walk visits below the root, in its order
Walked(tree) == SelectSeq(PayloadPaths, LAMBDA p : tree[p] # "none")

\* q lies in directory d or below it
Inside(q, d) == Len(d) < Len(q) /\ SubSeq(q, 1, Len(d)) = d

RECURSIVE WalkHasFiles(_, _, _)
\* the walk of payloadDirectoryHasFiles: the callback sets hasFiles at the
\* first entry that is not a directory and returns filepath.SkipDir, which
\* makes Walk skip what is left of the directory holding that entry
WalkHasFiles(tree, order, hasFiles) ==
    IF order = <<>> THEN hasFiles
    ELSE LET p == Head(order)
         IN  IF tree[p] # "dir"
             THEN WalkHasFiles(tree,
                               SelectSeq(Tail(order), LAMBDA q : ~Inside(q, Parent(p))),
                               TRUE)
             ELSE WalkHasFiles(tree, Tail(order), hasFiles)

payloadDirectoryHasFilesTopLevel(payload) ==
    IF ~payload.exists THEN FALSE
    ELSE \E i \in 1..Len(PayloadPaths) :
             Len(PayloadPaths[i]) = 1 /\ payload.tree[PayloadPaths[i]] = "file"

\* payloadDirectoryHasFiles when the walk meets no error
payloadDirectoryHasFiles(payload) ==
    IF ~payload.exists THEN FALSE
    ELSE WalkHasFiles(payload.tree, Walked(payload.tree), FALSE)

\* sort.Strings of a set of script names
\* the characters of file names in the order of their bytes
ByteOrder ==
    <<"-", ".", "0", "1", "2", "3", "4", "5", "6", "7", "8", "9", "A", "B", "C", "D",
      "E", "F", "G", "H", "I", "J", "K", "L", "M", "N", "O", "P", "Q", "R", "S", "T",
      "U", "V", "W", "X", "Y", "Z", "a", "b", "c", "d", "e", "f", "g", "h", "i", "j",
      "k", "l", "m", "n", "o", "p", "q", "r", "s", "t", "u", "v", "w", "x", "y", "z">>

ByteOf(c) == CHOOSE i \in 1..Len(ByteOrder) : ByteOrder[i] = c

RECURSIVE StringLess(_, _)
\* a < b of Go strings: byte by byte, a proper prefix first
StringLess(a, b) ==
    IF b = <<>> THEN FALSE
    ELSE IF a = <<>> THEN TRUE
    ELSE IF a[1] = b[1] THEN StringLess(Tail(a), Tail(b))
    ELSE ByteOf(a[1]) < ByteOf(b[1])

RECURSIVE SortStrings(_)
\* sort.Strings of a set of names
SortStrings(names) ==
    IF names = {} THEN <<>>
    ELSE LET least == CHOOSE n \in names : \A m \in names \ {n} : StringLess(n, m)
         IN  <<least>> \o SortStrings(names \ {least})

\* getPreinstallScripts and getPostinstallScripts: the regular files of the
\* scripts directory named <prefix>*.ps1 in any case, sorted
getScripts(scripts, prefix) ==
    IF ~scripts.exists THEN <<>>
    ELSE SortStrings({n \in scripts.files \cup scripts.dirs :
                         /\ n \in scripts.files
                         /\ HasPrefix(ToLower(n), prefix)
                         /\ HasSuffixString(ToLower(n), <<".", "p", "s", "1">>)})

getPreinstallScripts(scripts) == getScripts(scripts, <<"p", "r", "e", "i", "n", "s", "t", "a", "l", "l">>)

getPostinstallScripts(scripts) == getScripts(scripts, <<"p", "o", "s", "t", "i", "n", "s", "t", "a", "l", "l">>)

\* a piece of a generated script: a comment line naming a script, the
\* content of that script, a newline, or a line of text
Piece(kind, name, text) == [kind |-> kind, name |-> name, text |-> text]

RECURSIVE Bundle(_, _)
\* the scripts one after the other, each after a line naming it and before
\* a newline
Bundle(scriptNames, header) ==
    IF scriptNames = <<>> THEN <<>>
    ELSE <<Piece("header", scriptNames[1], header),
           Piece("content", scriptNames[1], ""),
           Piece("newline", <<>>, "")>> \o Bundle(Tail(scriptNames), header)

includePreinstallScriptsAlways(scripts) ==
    [written |-> TRUE, content |-> Bundle(getPreinstallScripts(scripts), "# Contents of ")]

\* tools/chocolateyBeforeModify.ps1 as includePreinstallScripts leaves it
includePreinstallScripts(scripts) ==
    LET preScripts == getPreinstallScripts(scripts)
    IN  IF Len(preScripts) = 0 THEN NoBeforeModify
        ELSE [written |-> TRUE, content |-> Bundle(preScripts, "# Contents of ")]

\* the lines createChocolateyInstallScript writes for postinstall_action;
\* ok is FALSE for the default case of the switch
PostInstallLines(postInstallAction) ==
    LET action == ToLower(postInstallAction)
    IN  IF action = <<>> THEN [ok |-> TRUE, lines |-> <<>>]
        ELSE IF action = <<"l", "o", "g", "o", "u", "t">>
        THEN [ok |-> TRUE, lines |-> <<"Write-Host 'Logging out...'", "shutdown /l">>]
        ELSE IF action = <<"r", "e", "s", "t", "a", "r", "t">>
        THEN [ok |-> TRUE, lines |-> <<"Write-Host 'Restarting system...'", "shutdown /r /t 0">>]
        ELSE IF action = <<"n", "o", "n", "e">>
        THEN [ok |-> TRUE, lines |-> <<"Write-Host 'No post-install action required.'">>]
        ELSE [ok |-> FALSE, lines |-> <<>>]

\* the text createChocolateyInstallScript builds in scriptBuilder, in the
\* order of its WriteString calls
BaseSections(bi, p) ==
    LET postLines == PostInstallLines(bi.PostInstallAction).lines
    IN  <<Piece("line", <<>>, "$ErrorActionPreference = 'Stop'"),
          Piece("line", <<>>, "$installLocation")>>
        \o (IF payloadDirectoryHasFiles(p.payload)
            THEN <<Piece("copyPayload", <<>>, "")>>
            ELSE <<Piece("scriptOnly", <<>>, "")>>)
        \o (IF ToLower(bi.PostInstallAction) = <<>> THEN <<>>
            ELSE <<Piece("line", <<>>, "# Executing post-install action")>>
                 \o [i \in 1..Len(postLines) |-> Piece("line", <<>>, postLines[i])])

\* the script after the postinstall scripts have been appended to it
AppendPostinstall(script, postScripts) ==
    [script EXCEPT !.postScripts = postScripts,
                   !.sections = @ \o Bundle(postScripts, "# Post-install script: ")]

\* chocolateyInstall.ps1 as createChocolateyInstallScript builds it
InstallScript(bi, p) ==
    [written        |-> TRUE,
     installLocation |-> normalizeInstallLocation(bi.InstallLocation),
     copiesPayload  |-> payloadDirectoryHasFiles(p.payload),
     postAction     |-> PostInstallLines(bi.PostInstallAction).lines,
     postScripts    |-> <<>>,
     sections       |-> BaseSections(bi, p)]

PayloadDirName == <<"p", "a", "y", "l", "o", "a", "d">>

\* filepath.ToSlash(filepath.Rel(projectDir, path)) of a payload entry
RelSlash(p) == PayloadDirName \o <<"/">> \o Join([i \in 1..Len(p) |-> <<p[i]>>], "/")

NuspecTargetInstallRoot(relPath, bi) == normalizeInstallLocation(bi.InstallLocation)

\* Target of the FileRef of a payload file
NuspecTarget(relPath, bi) == relPath

ToolsInstallPs1 == <<"t", "o", "o", "l", "s", "\\", "c", "h", "o", "c", "o", "l", "a", "t", "e", "y", "I", "n", "s", "t", "a", "l", "l", ".", "p", "s", "1">>

ToolsBeforeModifyPs1 ==
    <<"t", "o", "o", "l", "s", "\\", "c", "h", "o", "c", "o", "l", "a", "t", "e", "y", "B", "e", "f", "o", "r", "e", "M", "o", "d", "i", "f", "y", ".", "p", "s", "1">>

NuspecFilesMainBothTools(bi, p) ==
    LET files == SelectSeq(Walked(p.payload.tree), LAMBDA q : p.payload.tree[q] # "dir")
    IN  (IF p.payload.exists
         THEN [i \in 1..Len(files) |->
                  FileRef(RelSlash(files[i]), NuspecTarget(RelSlash(files[i]), bi))]
         ELSE <<>>)
        \o <<FileRef(ToolsInstallPs1, ToolsInstallPs1)>>
        \o <<FileRef(ToolsBeforeModifyPs1, ToolsBeforeModifyPs1)>>

\* nuspec.Files of generateNuspec in main.go
NuspecFilesMain(bi, p) ==
    LET files == SelectSeq(Walked(p.payload.tree), LAMBDA q : p.payload.tree[q] # "dir")
    IN  (IF p.payload.exists
         THEN [i \in 1..Len(files) |->
                  FileRef(RelSlash(files[i]), NuspecTarget(RelSlash(files[i]), bi))]
         ELSE <<>>)
        \o <<FileRef(ToolsInstallPs1, ToolsInstallPs1)>>
        \o (IF Len(getPreinstallScripts(p.scripts)) > 0
            THEN <<FileRef(ToolsBeforeModifyPs1, ToolsBeforeModifyPs1)>>
            ELSE <<>>)

-----------------------------------------------------------------------------
(* main of main.go *)

InitMain ==
    /\ PathIdle
    /\ \/ /\ \E vs \in MainVersions : Start("main", vs, 1, FALSE)
          /\ project \in Projects
          /\ config \in Configs
          /\ hasPayloadFiles = FALSE
          /\ fatal = NoFatal
          /\ outcome = NoOutcome
       \/ /\ Start("main", ThisVersion, 1, FALSE)
          /\ \E product \in Products :
                 /\ project \in BuiltProjects(product)
                 /\ config \in BuiltConfigs(product)
          /\ hasPayloadFiles = FALSE
          /\ fatal = NoFatal
          /\ outcome = NoOutcome
       \/ /\ \E vs \in DriverVersions : Start("modulo", vs, 1, FALSE)
          /\ MainIdle

\* log.Fatalf in main of main.go
FatalfMainAfter(step, err, o) ==
    /\ pc' = "fatal"
    /\ fatal' = [step |-> step, err |-> err]
    /\ outcome' = o
    /\ UNCHANGED <<prog, versionStr, buildInfo, version, dirsCreated, nuspec, packed, runs,
                   fromOutput, pathVars, config, hasPayloadFiles>>

FatalfMain(step, err) == FatalfMainAfter(step, err, outcome)

\* the step is done and main goes on, o being what it has settled on, run
\* and reported so far
GotoAfter(next, o) ==
    /\ pc' = next
    /\ outcome' = o
    /\ UNCHANGED <<prog, versionStr, runs, fromOutput, pathVars, config, fatal>>

Goto(next) == GotoAfter(next, outcome)

VerifyProjectStructure ==
    /\ prog = "main" /\ pc = "verifyProjectStructure"
    /\ LET err == verifyProjectStructure(project)
       IN  IF err # "nil"
           THEN /\ FatalfMain("verifyProjectStructure", err)
                /\ UNCHANGED <<verr, project>>
           ELSE /\ Goto("readBuildInfo")
                /\ UNCHANGED <<buildInfo, version, verr, dirsCreated, nuspec, packed, project,
                               hasPayloadFiles>>

\* readBuildInfo(projectDir): the YAML is decoded into buildInfo
ReadBuildInfoMain ==
    /\ prog = "main" /\ pc = "readBuildInfo"
    /\ buildInfo' = [Version |-> versionStr, loaded |-> TRUE,
                     InstallLocation |-> config.InstallLocation,
                     PostInstallAction |-> config.PostInstallAction,
                     SigningCertificate |-> config.SigningCertificate,
                     Name |-> config.Name, Identifier |-> config.Identifier]
    /\ Goto("payloadDirectoryHasFiles")
    /\ UNCHANGED <<version, verr, dirsCreated, nuspec, packed, project, hasPayloadFiles>>

\* os.ReadFile or yaml.Unmarshal fails
ReadBuildInfoMainFails ==
    /\ prog = "main" /\ pc = "readBuildInfo"
    /\ FatalfMain("readBuildInfo", "error reading build-info.yaml")
    /\ UNCHANGED <<verr, project>>

PayloadDirectoryHasFiles ==
    /\ prog = "main" /\ pc = "payloadDirectoryHasFiles"
    /\ hasPayloadFiles' = payloadDirectoryHasFiles(project.payload)
    /\ Goto("requireInstallLocation")
    /\ UNCHANGED <<buildInfo, version, verr, dirsCreated, nuspec, packed, project>>

\* the walk meets an error
PayloadDirectoryHasFilesFails ==
    /\ prog = "main" /\ pc = "payloadDirectoryHasFiles"
    /\ project.payload.exists
    /\ FatalfMain("payloadDirectoryHasFiles", "error checking payload folder")
    /\ UNCHANGED <<verr, project>>

\* if hasPayloadFiles && buildInfo.InstallLocation == ""
RequireInstallLocation ==
    /\ prog = "main" /\ pc = "requireInstallLocation"
    /\ IF hasPayloadFiles /\ buildInfo.InstallLocation = <<>>
       THEN /\ FatalfMain("requireInstallLocation", "'install_location' must be specified")
            /\ UNCHANGED <<verr, project>>
       ELSE /\ Goto("parseVersion")
            /\ UNCHANGED <<buildInfo, version, verr, dirsCreated, nuspec, packed, project,
                           hasPayloadFiles>>

\* _, err = parseVersion(buildInfo.Product.Version)
ParseVersionMainDriver ==
    /\ prog = "main" /\ pc = "parseVersion"
    /\ LET r == parseVersionMain(buildInfo.Version)
       IN  IF r.err # NoErr
           THEN /\ verr' = r.err
                /\ FatalfMain("parseVersion", "error parsing version")
                /\ UNCHANGED project
           ELSE /\ Goto("createProjectDirectory")
                /\ UNCHANGED <<buildInfo, version, verr, dirsCreated, nuspec, packed, project,
                               hasPayloadFiles>>

\* createProjectDirectory: MkdirAll payload, scripts, build, tools
CreateProjectDirectoryMainAfresh ==
    /\ prog = "main" /\ pc = "createProjectDirectory"
    /\ project' = [project EXCEPT !.payload = [exists |-> TRUE, tree |-> EmptyTree],
                                  !.scripts = [exists |-> TRUE, files |-> {}, dirs |-> {}],
                                  !.build = TRUE, !.tools.exists = TRUE]
    /\ dirsCreated' = TRUE
    /\ Goto("includePreinstallScripts")
    /\ UNCHANGED <<buildInfo, version, verr, nuspec, packed, hasPayloadFiles>>

\* createProjectDirectory: os.MkdirAll of payload, scripts, build and tools
CreateProjectDirectoryMain ==
    /\ prog = "main" /\ pc = "createProjectDirectory"
    /\ project' = [project EXCEPT !.payload.exists = TRUE, !.scripts.exists = TRUE,
                                  !.build = TRUE, !.tools.exists = TRUE]
    /\ dirsCreated' = TRUE
    /\ Goto("includePreinstallScripts")
    /\ UNCHANGED <<buildInfo, version, verr, nuspec, packed, hasPayloadFiles>>

\* os.MkdirAll fails for one of the four directories, after the ones
\* before it have been created
CreateProjectDirectoryMainFails ==
    /\ prog = "main" /\ pc = "createProjectDirectory"
    /\ \E created \in 0..3 :
           project' = [project EXCEPT !.payload.exists = @ \/ created >= 1,
                                      !.scripts.exists = @ \/ created >= 2,
                                      !.build = @ \/ created >= 3]
    /\ FatalfMain("createProjectDirectory", "failed to create directory")
    /\ UNCHANGED verr

\* includePreinstallScripts: the preinstall scripts, if any, are written
\* one after the other into tools/chocolateyBeforeModify.ps1
IncludePreinstallScripts ==
    /\ prog = "main" /\ pc = "includePreinstallScripts"
    /\ project' = [project EXCEPT !.tools.beforeModify = includePreinstallScripts(project.scripts)]
    /\ Goto("createChocolateyInstallScript")
    /\ UNCHANGED <<buildInfo, version, verr, dirsCreated, nuspec, packed, hasPayloadFiles>>

IncludePreinstallScriptsFails ==
    /\ prog = "main" /\ pc = "includePreinstallScripts"
    /\ FatalfMain("includePreinstallScripts", "error including preinstall scripts")
    /\ UNCHANGED <<verr, project>>

\* createChocolateyInstallScript: the script is written, then the
\* postinstall scripts are appended to it
CreateChocolateyInstallScript ==
    /\ prog = "main" /\ pc = "createChocolateyInstallScript"
    /\ IF ~PostInstallLines(buildInfo.PostInstallAction).ok
       THEN /\ FatalfMain("createChocolateyInstallScript", "unsupported post-install action")
            /\ UNCHANGED <<verr, project>>
       ELSE /\ project' =
                   [project EXCEPT !.tools.install =
                       AppendPostinstall(InstallScript(buildInfo, project),
                                         getPostinstallScripts(project.scripts))]
            /\ Goto("generateNuspec")
            /\ UNCHANGED <<buildInfo, version, verr, dirsCreated, nuspec, packed,
                           hasPayloadFiles>>

\* the payload check, MkdirAll or WriteFile fails: nothing is written
CreateChocolateyInstallScriptFails ==
    /\ prog = "main" /\ pc = "createChocolateyInstallScript"
    /\ FatalfMain("createChocolateyInstallScript", "failed to write chocolateyInstall.ps1")
    /\ UNCHANGED <<verr, project>>

\* the script is written but appending the postinstall scripts fails
AppendPostinstallScriptsFails ==
    /\ prog = "main" /\ pc = "createChocolateyInstallScript"
    /\ PostInstallLines(buildInfo.PostInstallAction).ok
    /\ project' = [project EXCEPT !.tools.install = InstallScript(buildInfo, project)]
    /\ FatalfMain("createChocolateyInstallScript", "failed to append postinstall scripts")
    /\ UNCHANGED verr

\* generateNuspec(buildInfo, projectDir): <Name>.nuspec is written
GenerateNuspecMain ==
    /\ prog = "main" /\ pc = "generateNuspec"
    /\ nuspec' = [written |-> TRUE,
                  Version |-> buildInfo.Version,
                  Files   |-> NuspecFilesMain(buildInfo, project)]
    /\ project' = [project EXCEPT !.nuspecFile = TRUE]
    /\ Goto("checkNuGet")
    /\ UNCHANGED <<buildInfo, version, verr, dirsCreated, packed, hasPayloadFiles>>

GenerateNuspecMainFails ==
    /\ prog = "main" /\ pc = "generateNuspec"
    /\ FatalfMain("generateNuspec", "error generating .nuspec")
    /\ UNCHANGED <<verr, project>>

CheckNuGet ==
    /\ prog = "main" /\ pc = "checkNuGet"
    /\ Goto("nugetPack")
    /\ UNCHANGED <<buildInfo, version, verr, dirsCreated, nuspec, packed, project,
                   hasPayloadFiles>>

CheckNuGetFails ==
    /\ prog = "main" /\ pc = "checkNuGet"
    /\ FatalfMain("checkNuGet", "NuGet is not installed or not in PATH")
    /\ UNCHANGED <<verr, project>>

\* the build directory after a file of this name has been written
WriteFile(files, name) ==
    {f \in files : f.name # name} \cup {BuildFile(name, "thisRun")}

\* nuget pack writes the package into build
NugetPackMain ==
    /\ prog = "main" /\ pc = "nugetPack"
    /\ packed' = TRUE
    /\ project' = [project EXCEPT !.buildFiles =
                       WriteFile(@, NugetPackageName(buildInfo.Identifier, buildInfo.Version))]
    /\ Goto("rename")
    /\ UNCHANGED <<buildInfo, version, verr, dirsCreated, nuspec, hasPayloadFiles>>

NugetPackMainFails ==
    /\ prog = "main" /\ pc = "nugetPack"
    /\ FatalfMain("nugetPack", "error creating package")
    /\ UNCHANGED <<verr, project>>

\* filepath.Glob(build\<identifier>*.nupkg): the names of the files of the
\* build directory that match, sorted
Glob(files, identifier) ==
    SortStrings({f.name : f \in {g \in files :
                                   /\ HasPrefix(g.name, identifier)
                                   /\ HasSuffixString(g.name, NupkgExt)
                                   /\ Len(g.name) >= Len(identifier) + Len(NupkgExt)}})

\* os.Rename inside the build directory: the file takes the new name and
\* replaces the file that had it
Rename(files, oldName, newName) ==
    IF oldName = newName THEN files
    ELSE {f \in files : f.name \notin {oldName, newName}}
         \cup {BuildFile(newName, f.origin) : f \in {g \in files : g.name = oldName}}

\* matches[0] of the glob <Identifier>*.nupkg is renamed to
\* <Name>-<Version>.nupkg; without a match nothing is renamed
RenamePackage ==
    /\ prog = "main" /\ pc = "rename"
    /\ LET matches == Glob(project.buildFiles, buildInfo.Identifier)
           builtPkgName == BuiltPkgName(buildInfo.Name, buildInfo.Version)
       IN  /\ project' = [project EXCEPT !.buildFiles =
                              IF Len(matches) > 0 THEN Rename(@, matches[1], builtPkgName)
                              ELSE @]
           /\ GotoAfter("sign", [outcome EXCEPT !.finalPkgPath = builtPkgName])
    /\ UNCHANGED <<buildInfo, version, verr, dirsCreated, nuspec, packed, hasPayloadFiles>>

\* os.Rename fails
RenamePackageFails ==
    /\ prog = "main" /\ pc = "rename"
    /\ Len(Glob(project.buildFiles, buildInfo.Identifier)) > 0
    /\ FatalfMain("rename", "failed to rename package")
    /\ UNCHANGED <<verr, project>>

\* the command checkSignTool runs
SignToolHelp == [command |-> "-?", file |-> <<>>]

\* the command signPackage runs
SignToolSign(nupkgFile) == [command |-> "sign", file |-> nupkgFile]

\* checkSignTool and signPackage when a certificate is configured
SignPackage ==
    /\ prog = "main" /\ pc = "sign"
    /\ GotoAfter("removeTools",
                 IF buildInfo.SigningCertificate # <<>>
                 THEN [outcome EXCEPT !.signtool =
                          <<SignToolHelp, SignToolSign(outcome.finalPkgPath)>>]
                 ELSE outcome)
    /\ UNCHANGED <<buildInfo, version, verr, dirsCreated, nuspec, packed, project,
                   hasPayloadFiles>>

\* signtool is not there, or it fails to sign
SignPackageFails ==
    /\ prog = "main" /\ pc = "sign"
    /\ buildInfo.SigningCertificate # <<>>
    /\ \/ FatalfMainAfter("sign", "SignTool is not installed or not available",
                          [outcome EXCEPT !.signtool = <<SignToolHelp>>])
       \/ FatalfMainAfter("sign", "failed to sign package",
                          [outcome EXCEPT !.signtool =
                              <<SignToolHelp, SignToolSign(outcome.finalPkgPath)>>])
    /\ UNCHANGED <<verr, project>>

\* os.RemoveAll(tools), whose failure is only logged; the package is
\* reported as created; on return the deferred os.Remove deletes the .nuspec
RemoveToolsAndReturn ==
    /\ prog = "main" /\ pc = "removeTools"
    /\ \E removed \in BOOLEAN :
           project' = [project EXCEPT !.tools = IF removed THEN NoTools ELSE @,
                                      !.nuspecFile = FALSE]
    /\ GotoAfter("done", [outcome EXCEPT !.reported = outcome.finalPkgPath])
    /\ UNCHANGED <<buildInfo, version, verr, dirsCreated, nuspec, packed, hasPayloadFiles>>

NextMain ==
    \/ VerifyProjectStructure
    \/ ReadBuildInfoMain
    \/ ReadBuildInfoMainFails
    \/ PayloadDirectoryHasFiles
    \/ PayloadDirectoryHasFilesFails
    \/ RequireInstallLocation
    \/ ParseVersionMainDriver
    \/ CreateProjectDirectoryMain
    \/ CreateProjectDirectoryMainFails
    \/ IncludePreinstallScripts
    \/ IncludePreinstallScriptsFails
    \/ CreateChocolateyInstallScript
    \/ CreateChocolateyInstallScriptFails
    \/ AppendPostinstallScriptsFails
    \/ GenerateNuspecMain
    \/ GenerateNuspecMainFails
    \/ CheckNuGet
    \/ CheckNuGetFails
    \/ NugetPackMain
    \/ NugetPackMainFails
    \/ RenamePackage
    \/ RenamePackageFails
    \/ SignPackage
    \/ SignPackageFails
    \/ RemoveToolsAndReturn
    \/ ReadBuildInfo
    \/ ReadBuildInfoFails
    \/ ParseVersionStep
    \/ CreateProjectDirectory
    \/ CreateProjectDirectoryFails
    \/ GenerateNuspec
    \/ GenerateNuspecFails
    \/ NugetPack
    \/ NugetPackFails

SpecMain == InitMain /\ [][NextMain]_vars

-----------------------------------------------------------------------------
(* Vocabulary of the properties of main of main.go *)

\* the steps of main in the order it takes them
MainOrder ==
    <<"verifyProjectStructure", "readBuildInfo", "payloadDirectoryHasFiles",
      "requireInstallLocation", "parseVersion", "createProjectDirectory",
      "includePreinstallScripts", "createChocolateyInstallScript", "generateNuspec",
      "checkNuGet", "nugetPack", "rename", "sign", "removeTools", "done">>

StepIndex(step) == CHOOSE i \in 1..Len(MainOrder) : MainOrder[i] = step

\* main has done this step without failing in it
Passed(step) ==
    /\ prog = "main"
    /\ StepIndex(IF pc = "fatal" THEN fatal.step ELSE pc) > StepIndex(step)

\* main has ended in this step
FailedIn(step) == prog = "main" /\ pc = "fatal" /\ fatal.step = step

\* the entries of the payload directory that are not directories
NonDirEntries == {p \in DOMAIN project.payload.tree : project.payload.tree[p] = "file"}

\* chocolateyInstall.ps1 in the tools directory
TheScript == project.tools.install

\* the positions of the payload files in the file list of the .nuspec
PayloadRefs ==
    {i \in 1..Len(nuspec.Files) : HasPrefix(nuspec.Files[i].Src, PayloadDirName \o <<"/">>)}

\* two letters that differ at most in case
SameLetter(c, d) ==
    c = d \/ \E k \in 1..Len(UpperChars) : {c, d} = {UpperChars[k], LowerChars[k]}

\* the configured action is this word in some mix of cases
ActionIs(word) ==
    LET a == config.PostInstallAction
    IN  Len(a) = Len(word) /\ \A i \in 1..Len(a) : SameLetter(a[i], word[i])

ActionSupported ==
    \/ config.PostInstallAction = <<>>
    \/ ActionIs(<<"n", "o", "n", "e">>)
    \/ ActionIs(<<"l", "o", "g", "o", "u", "t">>)
    \/ ActionIs(<<"r", "e", "s", "t", "a", "r", "t">>)

\* the shutdown commands of the script
ShutdownCommands ==
    {TheScript.postAction[i] : i \in 1..Len(TheScript.postAction)}
        \cap {"shutdown /l", "shutdown /r /t 0"}

-----------------------------------------------------------------------------
(* C11 *)

\* C11: in both build drivers a version error ends the run at once: when
\* parseVersion has returned an error the program has exited, no project
\* directory has been created, no script and no .nuspec has been written,
\* nuget pack has not run, and no further step is ever taken.
C11_VersionErrorAborts ==
    /\ [](verr # NoErr =>
             /\ pc = "fatal"
             /\ ~dirsCreated
             /\ nuspec = NoNuspec
             /\ ~packed
             /\ prog = "main" =>
                    /\ project.tools = NoTools
                    /\ ~project.nuspecFile
                    /\ \A f \in project.buildFiles : f.origin = "earlier")
    /\ [][verr' # NoErr => (prog = "main" => project' = project)]_vars
    /\ [][verr = NoErr]_vars

\* main of main.go has ended on a version that does not parse
C11_Witness ==
    /\ FailedIn("parseVersion")
    /\ verr # NoErr
    /\ project.payload.exists

-----------------------------------------------------------------------------
(* C16 *)

-----------------------------------------------------------------------------
(* C17 *)

\* C17: an empty install_location is passed through: the install script
\* written for a package without install_location sets $installLocation to
\* the empty string.
C17_EmptyPassesThrough ==
    (prog = "main" /\ TheScript.written /\ config.InstallLocation = <<>>) =>
        TheScript.installLocation = <<>>

-----------------------------------------------------------------------------
(* C18 *)

\* C18: main of main.go ends with the missing-install_location error exactly
\* when the payload directory holds an entry, at any depth, that is not a
\* directory and install_location is empty; with a payload directory that is
\* absent, empty or holds only directories it goes on without install_location.
C18_InstallLocationRequired ==
    prog = "main" =>
        LET required == NonDirEntries # {} /\ config.InstallLocation = <<>>
        IN  /\ fatal.err = "'install_location' must be specified" =>
                   required /\ FailedIn("requireInstallLocation")
            /\ FailedIn("requireInstallLocation") => required
            /\ Passed("requireInstallLocation") => ~required
            /\ pc = "requireInstallLocation" => (hasPayloadFiles <=> NonDirEntries # {})

\* main has ended for want of install_location over a payload whose only
\* file lies in a sub-directory
C18_Witness ==
    /\ FailedIn("requireInstallLocation")
    /\ NonDirEntries = {<<"a", "c">>}

-----------------------------------------------------------------------------
(* C19 *)

\* C19: verifyProjectStructure fails exactly when neither the payload nor the
\* scripts directory exists or build-info.yaml is missing, and succeeds when
\* at least one of the two directories and build-info.yaml exist.
C19_ProjectStructure ==
    (prog = "main" /\ ~dirsCreated) =>
        LET neither == ~project.payload.exists /\ ~project.scripts.exists
            missing == ~project.buildInfoYaml
        IN  /\ FailedIn("verifyProjectStructure") => (neither \/ missing)
            /\ Passed("verifyProjectStructure") => (~neither /\ ~missing)
            /\ (FailedIn("verifyProjectStructure") /\ neither) =>
                   fatal.err = "either 'payload' or 'scripts' directory must exist in the project directory"
            /\ (FailedIn("verifyProjectStructure") /\ ~neither) =>
                   fatal.err = "'build-info.yaml' file is missing in the project directory"

\* a project with a scripts directory and no payload directory was accepted
C19_Witness ==
    /\ prog = "main" /\ pc = "readBuildInfo"
    /\ ~project.payload.exists
    /\ project.scripts.exists
    /\ project.buildInfoYaml

-----------------------------------------------------------------------------
(* C20 *)

\* C20: postinstall_action is compared without regard to case: the script
\* written for logout holds shutdown /l, for restart shutdown /r /t 0, for
\* none or no value no shutdown command; for any other value
\* createChocolateyInstallScript returns an error and chocolateyInstall.ps1
\* is not written.
C20_PostInstallAction ==
    prog = "main" =>
        /\ TheScript.written =>
               /\ ActionSupported
               /\ ActionIs(<<"l", "o", "g", "o", "u", "t">>) => ShutdownCommands = {"shutdown /l"}
               /\ ActionIs(<<"r", "e", "s", "t", "a", "r", "t">>) => ShutdownCommands = {"shutdown /r /t 0"}
               /\ (config.PostInstallAction = <<>> \/ ActionIs(<<"n", "o", "n", "e">>)) => ShutdownCommands = {}
        /\ fatal.err = "unsupported post-install action" =>
               ~ActionSupported /\ FailedIn("createChocolateyInstallScript")
        /\ (FailedIn("createChocolateyInstallScript") /\ ~ActionSupported) => ~TheScript.written
        /\ Passed("createChocolateyInstallScript") => ActionSupported

\* the script for postinstall_action RESTART was written
C20_Witness ==
    /\ prog = "main" /\ TheScript.written
    /\ config.PostInstallAction = <<"R", "E", "S", "T", "A", "R", "T">>
    /\ ShutdownCommands = {"shutdown /r /t 0"}

-----------------------------------------------------------------------------
(* C30 *)

\* C30: both variants of normalizeInstallLocation are idempotent: applied to
\* its own result each returns that result again; the result of the part_000
\* variant never ends with a backslash.
C30_Idempotent ==
    /\ (Normalized /\ pathAgain.done) => pathAgain.out = pathOut.out
    /\ (pathFn = "trim" /\ pathOut.done) =>
           (pathOut.out = <<>> \/ pathOut.out[Len(pathOut.out)] # "\\")

\* the part_000 variant was applied again to what it made of a path that
\* ended in several separators
C30_Witness ==
    /\ pathFn = "trim" /\ pathOut.done /\ pathAgain.done
    /\ Len(rawPath) >= 3
    /\ rawPath[Len(rawPath)] \in Slashes
    /\ rawPath[Len(rawPath) - 1] \in Slashes
    /\ rawPath[1] \notin Slashes
    /\ pathOut.out # <<>>

-----------------------------------------------------------------------------
(* C21 *)

\* the positions of the .nuspec file list whose src is the path of the
\* payload entry p below the project directory
RefsOf(p) ==
    {i \in PayloadRefs :
        LET rest == SubSeq(nuspec.Files[i].Src, Len(PayloadDirName) + 2,
                           Len(nuspec.Files[i].Src))
        IN  /\ Len(rest) = 2 * Len(p) - 1
            /\ \A k \in 1..Len(p) : rest[2 * k - 1] = p[k]
            /\ \A k \in 1..(Len(p) - 1) : rest[2 * k] = "/"}

\* the directories of the payload that hold no entry
EmptyFolders ==
    {p \in DOMAIN project.payload.tree :
        /\ project.payload.tree[p] = "dir"
        /\ \A q \in DOMAIN project.payload.tree :
               (Len(q) > Len(p) /\ SubSeq(q, 1, Len(p)) = p) => project.payload.tree[q] = "none"}

\* C21: the file list of the .nuspec main.go writes holds every file of the
\* payload directory, and every folder of it that holds nothing, exactly
\* once, with src equal to target.
C21_AllEntriesListed ==
    (prog = "main" /\ nuspec.written) =>
        \A p \in NonDirEntries \cup EmptyFolders :
            /\ Cardinality(RefsOf(p)) = 1
            /\ \A i \in RefsOf(p) : nuspec.Files[i].Target = nuspec.Files[i].Src

-----------------------------------------------------------------------------
(* C24 *)

\* the name begins with the word and ends with .ps1, in any mix of cases
NamedLike(n, word) ==
    LET ext == <<".", "p", "s", "1">>
    IN  /\ Len(n) >= Len(word) + Len(ext)
        /\ \A i \in 1..Len(word) : SameLetter(n[i], word[i])
        /\ \A i \in 1..Len(ext) : SameLetter(n[Len(n) - Len(ext) + i], ext[i])

\* the regular files of the scripts directory that are preinstall scripts
PreinstallNames ==
    {n \in project.scripts.files : NamedLike(n, <<"p", "r", "e", "i", "n", "s", "t", "a", "l", "l">>)}

\* C24: main.go writes tools/chocolateyBeforeModify.ps1 exactly when the
\* scripts directory holds a regular file named preinstall*.ps1 in any case;
\* the file is these scripts in ascending order of their names, each exactly
\* once, after a line "# Contents of <name>" and before a newline.
C24_PreinstallBundle ==
    (prog = "main" /\ project.tools.exists) =>
        LET file == project.tools.beforeModify
            count == Cardinality(PreinstallNames)
        IN  /\ ~Passed("includePreinstallScripts") => ~file.written
            /\ Passed("includePreinstallScripts") =>
                   /\ file.written <=> PreinstallNames # {}
                   /\ Len(file.content) = 3 * count
                   /\ {file.content[3 * k - 1].name : k \in 1..count} = PreinstallNames
                   /\ \A k \in 1..count :
                          /\ file.content[3 * k - 2].kind = "header"
                          /\ file.content[3 * k - 2].text = "# Contents of "
                          /\ file.content[3 * k - 2].name = file.content[3 * k - 1].name
                          /\ file.content[3 * k - 1].kind = "content"
                          /\ file.content[3 * k].kind = "newline"
                   /\ \A k \in 1..(count - 1) :
                          StringLess(file.content[3 * k - 1].name, file.content[3 * k + 2].name)

\* two preinstall scripts were bundled, PreInstall2.PS1 before preinstall.ps1
C24_Witness ==
    /\ prog = "main" /\ project.tools.beforeModify.written
    /\ Len(project.tools.beforeModify.content) = 6
    /\ project.tools.beforeModify.content[2].name = PreInstall2PS1
    /\ project.tools.beforeModify.content[5].name = PreinstallPs1

-----------------------------------------------------------------------------
(* C25 *)

\* the places of chocolateyInstall.ps1 that hold the content of a
\* postinstall script
PostinstallPlaces ==
    {i \in 1..Len(TheScript.sections) : TheScript.sections[i].kind = "content"}

\* the places that hold the payload copy block
CopyPlaces ==
    {i \in 1..Len(TheScript.sections) : TheScript.sections[i].kind = "copyPayload"}

\* the places that hold a command logging the user out or restarting
ShutdownPlaces ==
    {i \in 1..Len(TheScript.sections) :
        /\ TheScript.sections[i].kind = "line"
        /\ TheScript.sections[i].text \in {"shutdown /l", "shutdown /r /t 0"}}

\* C25: in the chocolateyInstall.ps1 main.go generates, the contents of the
\* postinstall*.ps1 scripts stand in ascending order of file name, after
\* the payload copy block and before the logout or restart command
C25_PostinstallBeforeShutdown ==
    (prog = "main" /\ Passed("createChocolateyInstallScript") /\ TheScript.written) =>
        /\ \A i \in PostinstallPlaces :
              /\ \A c \in CopyPlaces : c < i
              /\ \A s \in ShutdownPlaces : i < s
        /\ \A i, j \in PostinstallPlaces :
              i < j => StringLess(TheScript.sections[i].name, TheScript.sections[j].name)

-----------------------------------------------------------------------------
(* C27 *)

\* the files signtool has been told to sign
SignedPaths ==
    {outcome.signtool[i].file :
        i \in {j \in 1..Len(outcome.signtool) : outcome.signtool[j].command = "sign"}}

\* the path names a file of the build directory that this run's nuget pack
\* produced
ThisRunsPackage(path) ==
    \E f \in project.buildFiles : f.name = path /\ f.origin = "thisRun"

\* C27: the path main.go reports in "Package created successfully" and the
\* path it passes to signtool name an existing file that is the package this
\* run's nuget pack produced, whatever packages earlier runs left in build
C27_ReportedIsThisRuns ==
    prog = "main" =>
        /\ outcome.reported # <<>> => ThisRunsPackage(outcome.reported)
        /\ \A path \in SignedPaths : ThisRunsPackage(path)

-----------------------------------------------------------------------------
(* C23 *)

\* C23: main.go runs signtool exactly when signing_certificate is set, and
\* then only after nuget pack has succeeded and the package it produced has
\* been renamed to <name>-<version>.nupkg, which is the file signed; when
\* signing fails no success is reported
C23_SignAfterRename ==
    prog = "main" =>
        /\ outcome.signtool # <<>> =>
              /\ buildInfo.SigningCertificate # <<>>
              /\ packed
              /\ Passed("rename")
        /\ (Passed("sign") /\ buildInfo.SigningCertificate # <<>>) => SignedPaths # {}
        /\ \A path \in SignedPaths :
              /\ path = BuiltPkgName(buildInfo.Name, buildInfo.Version)
              /\ ThisRunsPackage(path)
        /\ FailedIn("sign") => outcome.reported = <<>>

-----------------------------------------------------------------------------
(* C26 *)

\* the sources the .nuspec refers to
ReferencedSrcs == {nuspec.Files[i].Src : i \in 1..Len(nuspec.Files)}

\* a file of this relative path exists in the project directory
ExistsOnDisk(src) ==
    \/ src = ToolsInstallPs1 /\ project.tools.exists /\ project.tools.install.written
    \/ src = ToolsBeforeModifyPs1 /\ project.tools.exists /\ project.tools.beforeModify.written
    \/ \E q \in DOMAIN project.payload.tree :
           /\ src = RelSlash(q)
           /\ project.payload.exists
           /\ project.payload.tree[q] = "file"

\* C26: when main.go invokes nuget pack every file the .nuspec refers to
\* exists: chocolateyInstall.ps1 is referenced and written,
\* chocolateyBeforeModify.ps1 is referenced exactly when
\* includePreinstallScripts wrote it, and every referenced payload file exists
C26_ReferencedFilesExist ==
    (prog = "main" /\ pc = "nugetPack") =>
        /\ nuspec.written /\ project.nuspecFile
        /\ \A src \in ReferencedSrcs : ExistsOnDisk(src)
        /\ ToolsInstallPs1 \in ReferencedSrcs
        /\ ToolsBeforeModifyPs1 \in ReferencedSrcs <=> project.tools.beforeModify.written

\* nuget pack is about to run on a .nuspec that refers to both scripts and
\* to payload files
C26_Witness ==
    /\ prog = "main" /\ pc = "nugetPack"
    /\ ToolsBeforeModifyPs1 \in ReferencedSrcs
    /\ PayloadRefs # {}
    /\ Len(nuspec.Files) >= 4

-----------------------------------------------------------------------------
(* C28 *)

\* main of main.go has terminated
Terminated == prog = "main" /\ pc \in {"done", "fatal"}

\* C28: the .nuspec main.go generated is gone when the process has
\* terminated, whether the build succeeded or ended in a later step (nuget
\* missing, nuget pack failed, rename failed, signing failed)
C28_NuspecCleanedUp ==
    (Terminated /\ nuspec.written) => ~project.nuspecFile

-----------------------------------------------------------------------------
(* C29 *)

\* what the project holds as input of the build: the entries of payload, the
\* files and folders of scripts, and build-info.yaml
Inputs29 ==
    <<project.payload.tree, project.scripts.files, project.scripts.dirs, project.buildInfoYaml>>

\* C29: no step of the main.go build changes, renames or deletes an entry of
\* payload or scripts, or build-info.yaml; all it does to the two
\* directories is to create them, empty, when they are missing
C29_InputsUntouched ==
    [][prog = "main" =>
          /\ Inputs29' = Inputs29
          /\ project.payload.exists => project'.payload.exists
          /\ project.scripts.exists => project'.scripts.exists
          /\ (~project.payload.exists /\ project'.payload.exists) =>
                 project'.payload.tree = EmptyTree
          /\ (~project.scripts.exists /\ project'.scripts.exists) =>
                 project'.scripts.files \cup project'.scripts.dirs = {}]_vars

\* a build of a project with payload files and scripts has gone through
C29_Witness ==
    /\ prog = "main" /\ pc = "done"
    /\ NonDirEntries # {}
    /\ PreinstallPs1 \in project.scripts.files
    /\ PostinstallPs1 \in project.scripts.files
    /\ outcome.reported # <<>>

-----------------------------------------------------------------------------
(* main of part_000: the build driver that writes a readme.md *)

ReadmeMd == <<"r", "e", "a", "d", "m", "e", ".", "m", "d">>

ScriptsPreinstallPs1 == <<"s", "c", "r", "i", "p", "t", "s", "\\">> \o PreinstallPs1

ScriptsPostinstallPs1 == <<"s", "c", "r", "i", "p", "t", "s", "\\">> \o PostinstallPs1

\* product.description of build-info.yaml
Descriptions == { <<>>, <<"a", " ", "b">> }

\* a readme.md file, or none
NoReadme == [exists |-> FALSE, content |-> <<>>]

Readme(content) == [exists |-> TRUE, content |-> content]

\* the payload directories of the projects of this driver
PayloadsOfReadme ==
    { [exists |-> FALSE, tree |-> EmptyTree],
      [exists |-> TRUE, tree |-> EmptyTree],
      [exists |-> TRUE,
       tree |-> [q \in DOMAIN EmptyTree |-> IF q = <<"a">> THEN "dir" ELSE "file"]] }

\* the project directory before the driver runs; it may hold a readme.md
\* of the project's own
ProjectsOfReadme ==
    {[payload |-> p, scripts |-> s, buildInfoYaml |-> y, build |-> FALSE, buildFiles |-> {},
      tools |-> NoTools, nuspecFile |-> FALSE, readmeMd |-> r] :
        p \in PayloadsOfReadme, s \in ScriptsDirs, y \in BOOLEAN,
        r \in {NoReadme, Readme(<<"o", "w", "n">>)}}

ConfigsOfReadme ==
    [InstallLocation : {<<"C", ":", "\\", "a">>},
     PostInstallAction : { <<>>, <<"L", "o", "g", "o", "u", "t">>, <<"r", "e", "b", "o", "o", "t">> },
     SigningCertificate : SigningCertificates,
     Name : {AppName}, Identifier : {ComApp}, Description : Descriptions]

InitReadme ==
    /\ PathIdle
    /\ Start("main000", ThisVersion, 1, FALSE)
    /\ project \in ProjectsOfReadme
    /\ config \in ConfigsOfReadme
    /\ hasPayloadFiles = FALSE
    /\ fatal = NoFatal
    /\ outcome = NoOutcome

\* filepath.Rel(projectDir, path) of a payload entry
RelBackslash(p) == PayloadDirName \o <<"\\">> \o Join([i \in 1..Len(p) |-> <<p[i]>>], "\\")

\* strings.TrimPrefix(path, payloadPath + separator) of a payload entry
BelowPayload(p) == Join([i \in 1..Len(p) |-> <<p[i]>>], "\\")

\* the lines createChocolateyInstallScript of this driver writes for
\* postinstall_action; ok is FALSE for the default case of the switch
PostInstallLinesOfReadme(postInstallAction) ==
    LET action == ToLower(postInstallAction)
    IN  IF action = <<"l", "o", "g", "o", "u", "t">>
        THEN [ok |-> TRUE, lines |-> <<"# Perform logout", "shutdown /l">>]
        ELSE IF action = <<"r", "e", "s", "t", "a", "r", "t">>
        THEN [ok |-> TRUE, lines |-> <<"# Perform restart", "shutdown /r /t 0">>]
        ELSE IF action \in {<<>>, <<"n", "o", "n", "e">>}
        THEN [ok |-> TRUE, lines |-> <<>>]
        ELSE [ok |-> FALSE, lines |-> <<>>]

\* chocolateyInstall.ps1 as createChocolateyInstallScript of this driver
\* builds it: the copy of the payload, the content of postinstall.ps1 when
\* there is one, the post-install action
InstallScriptOfReadme(bi, p) ==
    LET postScripts == IF p.scripts.exists /\ PostinstallPs1 \in p.scripts.files
                       THEN <<PostinstallPs1>> ELSE <<>>
        postLines == PostInstallLinesOfReadme(bi.PostInstallAction).lines
    IN  [written         |-> TRUE,
         installLocation |-> normalizeInstallLocationTrim(bi.InstallLocation),
         copiesPayload   |-> TRUE,
         postAction      |-> postLines,
         postScripts     |-> postScripts,
         sections        |->
             <<Piece("line", <<>>, "$ErrorActionPreference = 'Stop'"),
               Piece("line", <<>>, "$installLocation"),
               Piece("copyPayload", <<>>, "")>>
             \o [i \in 1..Len(postScripts) |-> Piece("content", postScripts[i], "")]
             \o [i \in 1..Len(postLines) |-> Piece("line", <<>>, postLines[i])]]

\* addScriptToNuspec: the script is listed when os.Stat finds it
addScriptToNuspec(p, scriptName, src, target) ==
    IF p.scripts.exists /\ scriptName \in p.scripts.files \cup p.scripts.dirs
    THEN <<FileRef(src, target)>>
    ELSE <<>>

\* nuspec.Files of generateNuspec of this driver
NuspecFilesOfReadme(bi, p) ==
    LET files == SelectSeq(Walked(p.payload.tree), LAMBDA q : p.payload.tree[q] # "dir")
    IN  (IF bi.Description # <<>> THEN <<FileRef(ReadmeMd, ReadmeMd)>> ELSE <<>>)
        \o (IF p.payload.exists
            THEN [i \in 1..Len(files) |-> FileRef(RelBackslash(files[i]), BelowPayload(files[i]))]
            ELSE <<>>)
        \o addScriptToNuspec(p, PreinstallPs1, ScriptsPreinstallPs1, ToolsBeforeModifyPs1)
        \o addScriptToNuspec(p, PostinstallPs1, ScriptsPostinstallPs1, ToolsInstallPs1)

\* readme.md when generateNuspec has returned: written with the description
\* and then removed by the deferred os.Remove, whose failure is only logged
ReadmeAfterGenerate(bi, p, removed) ==
    IF bi.Description = <<>> THEN p.readmeMd
    ELSE IF removed THEN NoReadme
    ELSE Readme(bi.Description)

VerifyProjectStructureOfReadme ==
    /\ prog = "main000" /\ pc = "verifyProjectStructure"
    /\ LET err == verifyProjectStructure(project)
       IN  IF err # "nil"
           THEN /\ FatalfMain("verifyProjectStructure", err)
                /\ UNCHANGED <<verr, project>>
           ELSE /\ Goto("readBuildInfo")
                /\ UNCHANGED <<buildInfo, version, verr, dirsCreated, nuspec, packed, project,
                               hasPayloadFiles>>

ReadBuildInfoOfReadme ==
    /\ prog = "main000" /\ pc = "readBuildInfo"
    /\ buildInfo' = [Version |-> versionStr, loaded |-> TRUE,
                     InstallLocation |-> config.InstallLocation,
                     PostInstallAction |-> config.PostInstallAction,
                     SigningCertificate |-> config.SigningCertificate,
                     Name |-> config.Name, Identifier |-> config.Identifier,
                     Description |-> config.Description]
    /\ Goto("createProjectDirectory")
    /\ UNCHANGED <<version, verr, dirsCreated, nuspec, packed, project, hasPayloadFiles>>

ReadBuildInfoOfReadmeFails ==
    /\ prog = "main000" /\ pc = "readBuildInfo"
    /\ FatalfMain("readBuildInfo", "error reading build-info.yaml")
    /\ UNCHANGED <<verr, project>>

\* createProjectDirectory of this driver: payload, scripts and build
CreateProjectDirectoryOfReadme ==
    /\ prog = "main000" /\ pc = "createProjectDirectory"
    /\ project' = [project EXCEPT !.payload.exists = TRUE, !.scripts.exists = TRUE,
                                  !.build = TRUE]
    /\ dirsCreated' = TRUE
    /\ Goto("includePreinstallScript")
    /\ UNCHANGED <<buildInfo, version, verr, nuspec, packed, hasPayloadFiles>>

CreateProjectDirectoryOfReadmeFails ==
    /\ prog = "main000" /\ pc = "createProjectDirectory"
    /\ \E created \in 0..2 :
           project' = [project EXCEPT !.payload.exists = @ \/ created >= 1,
                                      !.scripts.exists = @ \/ created >= 2]
    /\ FatalfMain("createProjectDirectory", "failed to create directory")
    /\ UNCHANGED verr

\* includePreinstallScript: scripts\preinstall.ps1, when there, is copied to
\* tools\chocolateyBeforeModify.ps1
IncludePreinstallScriptOfReadme ==
    /\ prog = "main000" /\ pc = "includePreinstallScript"
    /\ project' = IF PreinstallPs1 \in project.scripts.files
                  THEN [project EXCEPT !.tools.exists = TRUE,
                                       !.tools.beforeModify =
                                           [written |-> TRUE,
                                            content |-> <<Piece("content", PreinstallPs1, "")>>]]
                  ELSE project
    /\ Goto("createChocolateyInstallScript")
    /\ UNCHANGED <<buildInfo, version, verr, dirsCreated, nuspec, packed, hasPayloadFiles>>

\* os.MkdirAll or copyFile fails
IncludePreinstallScriptOfReadmeFails ==
    /\ prog = "main000" /\ pc = "includePreinstallScript"
    /\ PreinstallPs1 \in project.scripts.files
    /\ FatalfMain("includePreinstallScript", "failed to copy preinstall.ps1")
    /\ UNCHANGED <<verr, project>>

CreateChocolateyInstallScriptOfReadme ==
    /\ prog = "main000" /\ pc = "createChocolateyInstallScript"
    /\ IF ~PostInstallLinesOfReadme(buildInfo.PostInstallAction).ok
       THEN /\ FatalfMain("createChocolateyInstallScript", "invalid postinstall_action")
            /\ UNCHANGED <<verr, project>>
       ELSE /\ project' = [project EXCEPT !.tools.exists = TRUE,
                                          !.tools.install =
                                              InstallScriptOfReadme(buildInfo, project)]
            /\ Goto("generateNuspec")
            /\ UNCHANGED <<buildInfo, version, verr, dirsCreated, nuspec, packed,
                           hasPayloadFiles>>

\* reading postinstall.ps1, os.MkdirAll or os.WriteFile fails
CreateChocolateyInstallScriptOfReadmeFails ==
    /\ prog = "main000" /\ pc = "createChocolateyInstallScript"
    /\ FatalfMain("createChocolateyInstallScript", "failed to write chocolateyInstall.ps1")
    /\ UNCHANGED <<verr, project>>

\* generateNuspec of this driver, from its call to its return: readme.md is
\* written and referenced when there is a description, the .nuspec is
\* written, and on return the deferred function removes readme.md
GenerateNuspecOfReadme ==
    /\ prog = "main000" /\ pc = "generateNuspec"
    /\ nuspec' = [written |-> TRUE,
                  Version |-> buildInfo.Version,
                  Readme  |-> IF buildInfo.Description # <<>> THEN ReadmeMd ELSE <<>>,
                  Files   |-> NuspecFilesOfReadme(buildInfo, project)]
    /\ \E removed \in BOOLEAN :
           project' = [project EXCEPT !.nuspecFile = TRUE,
                                      !.readmeMd = ReadmeAfterGenerate(buildInfo, project, removed)]
    /\ Goto("checkNuGet")
    /\ UNCHANGED <<buildInfo, version, verr, dirsCreated, packed, hasPayloadFiles>>

\* generateNuspec returns an error: readme.md could not be written, or it
\* was written and the walk, os.Create or the encoding failed, and the
\* deferred function has run
GenerateNuspecOfReadmeFails ==
    /\ prog = "main000" /\ pc = "generateNuspec"
    /\ \/ /\ buildInfo.Description # <<>>
          /\ UNCHANGED project
       \/ \E removed \in BOOLEAN :
              project' = [project EXCEPT
                             !.readmeMd = ReadmeAfterGenerate(buildInfo, project, removed)]
    /\ FatalfMain("generateNuspec", "error generating .nuspec")
    /\ UNCHANGED verr

CheckNuGetOfReadme ==
    /\ prog = "main000" /\ pc = "checkNuGet"
    /\ Goto("nugetPack")
    /\ UNCHANGED <<buildInfo, version, verr, dirsCreated, nuspec, packed, project,
                   hasPayloadFiles>>

CheckNuGetOfReadmeFails ==
    /\ prog = "main000" /\ pc = "checkNuGet"
    /\ FatalfMain("checkNuGet", "NuGet is not installed or not in PATH")
    /\ UNCHANGED <<verr, project>>

\* nuget pack writes the package into build and main reports it
NugetPackOfReadme ==
    /\ prog = "main000" /\ pc = "nugetPack"
    /\ packed' = TRUE
    /\ project' = [project EXCEPT !.buildFiles =
                       WriteFile(@, NugetPackageName(buildInfo.Identifier, buildInfo.Version))]
    /\ GotoAfter("sign", [outcome EXCEPT !.finalPkgPath = buildInfo.Name \o NupkgExt,
                                         !.reported = buildInfo.Name \o NupkgExt])
    /\ UNCHANGED <<buildInfo, version, verr, dirsCreated, nuspec, hasPayloadFiles>>

NugetPackOfReadmeFails ==
    /\ prog = "main000" /\ pc = "nugetPack"
    /\ FatalfMain("nugetPack", "error creating package")
    /\ UNCHANGED <<verr, project>>

\* checkSignTool and signPackage when a certificate is configured; on
\* return the deferred os.Remove deletes the .nuspec
SignPackageOfReadme ==
    /\ prog = "main000" /\ pc = "sign"
    /\ project' = [project EXCEPT !.nuspecFile = FALSE]
    /\ GotoAfter("done",
                 IF buildInfo.SigningCertificate # <<>>
                 THEN [outcome EXCEPT !.signtool =
                          <<SignToolHelp, SignToolSign(outcome.finalPkgPath)>>]
                 ELSE outcome)
    /\ UNCHANGED <<buildInfo, version, verr, dirsCreated, nuspec, packed, hasPayloadFiles>>

SignPackageOfReadmeFails ==
    /\ prog = "main000" /\ pc = "sign"
    /\ buildInfo.SigningCertificate # <<>>
    /\ \/ FatalfMainAfter("sign", "SignTool is not installed or not available",
                          [outcome EXCEPT !.signtool = <<SignToolHelp>>])
       \/ FatalfMainAfter("sign", "failed to sign package",
                          [outcome EXCEPT !.signtool =
                              <<SignToolHelp, SignToolSign(outcome.finalPkgPath)>>])
    /\ UNCHANGED <<verr, project>>

NextReadme ==
    \/ VerifyProjectStructureOfReadme
    \/ ReadBuildInfoOfReadme
    \/ ReadBuildInfoOfReadmeFails
    \/ CreateProjectDirectoryOfReadme
    \/ CreateProjectDirectoryOfReadmeFails
    \/ IncludePreinstallScriptOfReadme
    \/ IncludePreinstallScriptOfReadmeFails
    \/ CreateChocolateyInstallScriptOfReadme
    \/ CreateChocolateyInstallScriptOfReadmeFails
    \/ GenerateNuspecOfReadme
    \/ GenerateNuspecOfReadmeFails
    \/ CheckNuGetOfReadme
    \/ CheckNuGetOfReadmeFails
    \/ NugetPackOfReadme
    \/ NugetPackOfReadmeFails
    \/ SignPackageOfReadme
    \/ SignPackageOfReadmeFails

SpecReadme == InitReadme /\ [][NextReadme]_vars

-----------------------------------------------------------------------------
(* C22 *)

\* C22: in the build driver of part_000, when nuget pack runs, a
\* description that is provided has produced a readme.md that holds it and
\* that the .nuspec refers to, and without a description the driver has
\* written no readme.md and the .nuspec refers to none
C22_ReadmeIncluded ==
    (prog = "main000" /\ pc = "nugetPack") =>
        IF buildInfo.Description # <<>>
        THEN /\ \E i \in 1..Len(nuspec.Files) : nuspec.Files[i].Src = ReadmeMd
             /\ project.readmeMd = Readme(buildInfo.Description)
        ELSE /\ \A i \in 1..Len(nuspec.Files) : nuspec.Files[i].Src # ReadmeMd
             /\ nuspec.Readme = <<>>
             /\ project.readmeMd \in {NoReadme, Readme(<<"o", "w", "n">>)}

=============================================================================
